---- MODULE Spec2Model ----
(***************************************************************************)
(* The article scoring pipeline of the news filtering server: the keyword  *)
(* filter (layer 1), the source credibility store (layer 2), the content   *)
(* analyzer (layer 3), the weighted overall score and the curation status  *)
(* derived from it, together with the ingestion and reprocessing handlers  *)
(* that run the pipeline against the Article and Source collections.       *)
(*                                                                         *)
(* Text is a sequence of one-character strings, so that the substring and  *)
(* word-boundary scans of the source are computed, not assumed.  A score   *)
(* that the source holds as a double with a possible fraction of one half  *)
(* is kept doubled (keyword filter) or in hundredths (overall score).      *)
(***************************************************************************)
EXTENDS Integers, Sequences, FiniteSets, TLC

VARIABLES
  fnIn,      \* the argument of the pure function under test
  fnOut,     \* <<>> before the call, <<result>> after it
  sources,   \* the Source collection, in insertion order
  articles,  \* the Article collection, in insertion order
  openai,    \* whether the OpenAI client was configured at start-up
  last,      \* the last handler call: its arguments, faults and outcome
  calls,     \* the log of the calls made on the Source model, in order
  callers,   \* the calls in flight, one per caller
  viralNews, \* the ViralNews collection, in insertion order
  cache      \* the keys the cache holds

vars == <<fnIn, fnOut, sources, articles, openai, last, calls, callers,
          viralNews, cache>>
fnVars == <<fnIn, fnOut, calls, callers>>
storeVars == <<sources, articles, openai, last>>

----------------------------------------------------------------------------
(* Text primitives of the JavaScript runtime.                              *)

Min(a, b) == IF a < b THEN a ELSE b
Max(a, b) == IF a > b THEN a ELSE b

UpperCase == <<"A","B","C","D","E","F","G","H","I","J","K","L","M",
               "N","O","P","Q","R","S","T","U","V","W","X","Y","Z">>
LowerCase == <<"a","b","c","d","e","f","g","h","i","j","k","l","m",
               "n","o","p","q","r","s","t","u","v","w","x","y","z">>
Digits == {"0","1","2","3","4","5","6","7","8","9"}

\* String.prototype.toLowerCase, one character at a time.
toLowerCase(s) ==
  [i \in 1..Len(s) |->
     IF \E n \in 1..Len(UpperCase) : UpperCase[n] = s[i]
     THEN LowerCase[CHOOSE n \in 1..Len(UpperCase) : UpperCase[n] = s[i]]
     ELSE s[i]]

\* An optional value: {} when absent (undefined/null), {v} when present.
None == {}
Some(v) == {v}
The(opt) == CHOOSE v \in opt : TRUE

\* The number NaN: what Math.min and Math.max return for an argument that
\* is not a number.  It stands outside every range the scores are held to.
NaN == -1000000

\* (value || 50): undefined, null, 0 and NaN are all falsy.
OrFifty(opt) ==
  IF opt = None \/ opt = Some(0) \/ opt = Some(NaN) THEN 50 ELSE The(opt)

\* (field || '') for a text field that may be absent.
OrEmpty(field) == IF field = None THEN <<>> ELSE The(field)

\* Does pattern pat match text s at position i?  A pattern is a literal
\* character sequence, except for the regular-expression token \d+.
RECURSIVE MatchAt(_, _, _, _)
MatchAt(s, i, pat, j) ==
  IF j > Len(pat) THEN TRUE
  ELSE IF pat[j] = "\\d+"
       THEN \E n \in 1..(Len(s) - i + 1) :
              /\ \A m \in 0..(n - 1) : s[i + m] \in Digits
              /\ MatchAt(s, i + n, pat, j + 1)
       ELSE /\ i <= Len(s)
            /\ s[i] = pat[j]
            /\ MatchAt(s, i + 1, pat, j + 1)

\* new RegExp(pattern, 'gi').test(s) on lower-cased text.
RegexTest(pat, s) == \E i \in 1..Len(s) : MatchAt(s, i, pat, 1)

\* String.prototype.includes for a literal.
Includes(s, lit) ==
  \E i \in 1..(Len(s) - Len(lit) + 1) :
    \A j \in 1..Len(lit) : s[i + j - 1] = lit[j]

\* \w of the regular-expression engine.
IsWordChar(c) ==
  \/ c \in Digits
  \/ c = "_"
  \/ \E n \in 1..Len(LowerCase) : LowerCase[n] = c \/ UpperCase[n] = c

\* new RegExp(`\\b${word}\\b`, 'gi').test(s) on lower-cased text.
WordTest(word, s) ==
  \E i \in 1..(Len(s) - Len(word) + 1) :
    /\ \A j \in 1..Len(word) : s[i + j - 1] = word[j]
    /\ (i = 1 \/ ~IsWordChar(s[i - 1]))
    /\ (i + Len(word) > Len(s) \/ ~IsWordChar(s[i + Len(word)]))

\* Math.min/Math.max clamp.
Clamp(lo, hi, x) == Max(lo, Min(hi, x))

\* const name = value; followed by the code that uses it: the value is
\* computed once and handed to Body.
With(value, Body(_)) == Body(value)

\* The elements of a pattern table that satisfy Test, as a set.
Matches(table, Test(_)) == {table[n] : n \in {m \in 1..Len(table) : Test(table[m])}}

----------------------------------------------------------------------------
(* Layer 1: the keyword filter.                                            *)

CLICKBAIT_PATTERNS == <<
    <<"y","o","u"," ","w","o","n","'","t"," ","b","e","l","i","e","v","e">>,
    <<"y","o","u"," ","w","o","n","'","t"," ","b","e","l","i","e","v","e"," ","w","h","a","t">>,
    <<"w","h","a","t"," ","h","a","p","p","e","n","e","d"," ","n","e","x","t">>,
    <<"t","h","i","s"," ","i","s"," ","w","h","y">>,
    <<"t","h","e"," ","r","e","a","s","o","n"," ","i","s">>,
    <<"w","i","l","l"," ","b","l","o","w"," ","y","o","u","r"," ","m","i","n","d">>,
    <<"w","i","l","l"," ","s","h","o","c","k"," ","y","o","u">>,
    <<"n","u","m","b","e","r"," ","\\d+"," ","w","i","l","l">>,
    <<"o","n","e"," ","w","e","i","r","d"," ","t","r","i","c","k">>,
    <<"d","o","c","t","o","r","s"," ","h","a","t","e">>,
    <<"s","c","i","e","n","t","i","s","t","s"," ","a","r","e"," ","b","a","f","f","l","e","d">>,
    <<"t","h","i","s"," ","s","i","m","p","l","e"," ","t","r","i","c","k">>,
    <<"y","o","u"," ","n","e","e","d"," ","t","o"," ","s","e","e">>,
    <<"g","o","e","s"," ","v","i","r","a","l">>,
    <<"t","h","e"," ","i","n","t","e","r","n","e","t"," ","i","s">>,
    <<"e","v","e","r","y","o","n","e"," ","i","s"," ","t","a","l","k","i","n","g"," ","a","b","o","u","t">>,
    <<"y","o","u","'","r","e"," ","d","o","i","n","g"," ","i","t"," ","w","r","o","n","g">>,
    <<"w","h","a","t"," ","t","h","e","y"," ","d","o","n","'","t"," ","w","a","n","t"," ","y","o","u"," ","t","o"," ","k","n","o","w">>,
    <<"t","h","e"," ","t","r","u","t","h"," ","a","b","o","u","t">>,
    <<"e","x","p","o","s","e","d">>,
    <<"y","o","u","'","l","l"," ","n","e","v","e","r"," ","g","u","e","s","s">>,
    <<"t","h","i","s"," ","c","h","a","n","g","e","s"," ","e","v","e","r","y","t","h","i","n","g">>,
    <<"m","i","n","d","-","b","l","o","w","i","n","g">>,
    <<"j","a","w","-","d","r","o","p","p","i","n","g">>
  >>

SENSATIONAL_WORDS == <<
    <<"s","h","o","c","k","i","n","g">>,
    <<"e","x","p","l","o","s","i","v","e">>,
    <<"b","o","m","b","s","h","e","l","l">>,
    <<"d","e","v","a","s","t","a","t","i","n","g">>,
    <<"h","o","r","r","i","f","y","i","n","g">>,
    <<"t","e","r","r","i","f","y","i","n","g">>,
    <<"o","u","t","r","a","g","e","o","u","s">>,
    <<"i","n","s","a","n","e">>,
    <<"c","r","a","z","y">>,
    <<"u","n","b","e","l","i","e","v","a","b","l","e">>,
    <<"i","n","c","r","e","d","i","b","l","e">>,
    <<"a","m","a","z","i","n","g">>,
    <<"s","t","u","n","n","i","n","g">>,
    <<"b","r","e","a","k","i","n","g">>,
    <<"u","r","g","e","n","t">>,
    <<"e","m","e","r","g","e","n","c","y">>,
    <<"c","r","i","s","i","s">>,
    <<"d","i","s","a","s","t","e","r">>,
    <<"c","a","t","a","s","t","r","o","p","h","e">>,
    <<"s","c","a","n","d","a","l">>,
    <<"c","h","a","o","s">>,
    <<"r","a","g","e">>,
    <<"f","u","r","y">>,
    <<"s","l","a","m","s">>,
    <<"d","e","s","t","r","o","y","s">>,
    <<"o","b","l","i","t","e","r","a","t","e","s">>,
    <<"a","n","n","i","h","i","l","a","t","e","s">>,
    <<"e","p","i","c">>,
    <<"m","a","s","s","i","v","e">>,
    <<"h","u","g","e">>,
    <<"b","r","u","t","a","l">>
  >>

QUALITY_INDICATORS == <<
    <<"a","c","c","o","r","d","i","n","g"," ","t","o">>,
    <<"r","e","s","e","a","r","c","h"," ","s","h","o","w","s">>,
    <<"s","t","u","d","y"," ","f","i","n","d","s">>,
    <<"d","a","t","a"," ","i","n","d","i","c","a","t","e","s">>,
    <<"e","x","p","e","r","t","s"," ","s","a","y">>,
    <<"r","e","p","o","r","t"," ","s","t","a","t","e","s">>,
    <<"a","n","a","l","y","s","i","s"," ","r","e","v","e","a","l","s">>,
    <<"e","v","i","d","e","n","c","e"," ","s","u","g","g","e","s","t","s">>,
    <<"o","f","f","i","c","i","a","l","s"," ","c","o","n","f","i","r","m">>,
    <<"s","o","u","r","c","e","s"," ","r","e","p","o","r","t">>
  >>

\* The scores analyzeKeywords derives from the lengths of its three match
\* lists.  score2 is twice the source's `score`, which can end in .5.
\* keywordScores without the clamp of line 131.
keywordScoresUnclamped(clickbaitLen, sensationalLen, qualityLen) ==
  LET clickbaitScore == Min(100, clickbaitLen * 30)
      sensationalismScore == Min(100, sensationalLen * 15)
      qualityBonus == Min(30, qualityLen * 10)
      score2 == 200 - (clickbaitScore + sensationalismScore) + 2 * qualityBonus
  IN [passed |-> score2 >= 100,
      score |-> (score2 + 1) \div 2,
      clickbaitScore |-> clickbaitScore,
      sensationalismScore |-> sensationalismScore]

keywordScores(clickbaitLen, sensationalLen, qualityLen) ==
  LET clickbaitScore == Min(100, clickbaitLen * 30)
      sensationalismScore == Min(100, sensationalLen * 15)
      qualityBonus == Min(30, qualityLen * 10)
      score2 == Clamp(0, 200, 200 - (clickbaitScore + sensationalismScore)
                                  + 2 * qualityBonus)
  IN [passed |-> score2 >= 100,
      score |-> (score2 + 1) \div 2,
      clickbaitScore |-> clickbaitScore,
      sensationalismScore |-> sensationalismScore]

\* analyzeKeywords without the second push for a word found in the title.
analyzeKeywordsSinglePush(article) ==
  LET titleText == toLowerCase(OrEmpty(article.title))
      fullText == titleText \o <<" ">>
                    \o toLowerCase(OrEmpty(article.description)) \o <<" ">>
                    \o toLowerCase(OrEmpty(article.content))
      clickbaitMatches ==
        Matches(CLICKBAIT_PATTERNS, LAMBDA p : RegexTest(p, titleText))
      inText == Matches(SENSATIONAL_WORDS, LAMBDA w : WordTest(w, fullText))
      qualityMatches ==
        Matches(QUALITY_INDICATORS, LAMBDA q : Includes(fullText, toLowerCase(q)))
      s == keywordScores(Cardinality(clickbaitMatches), Cardinality(inText),
                         Cardinality(qualityMatches))
  IN [passed |-> s.passed,
      score |-> s.score,
      flaggedKeywords |-> clickbaitMatches \cup inText,
      clickbaitScore |-> s.clickbaitScore,
      sensationalismScore |-> s.sensationalismScore,
      qualityIndicators |-> qualityMatches]

analyzeKeywords(article) ==
  LET title == toLowerCase(OrEmpty(article.title))
      description == toLowerCase(OrEmpty(article.description))
      content == toLowerCase(OrEmpty(article.content))
      titleText == title
      fullText == title \o <<" ">> \o description \o <<" ">> \o content
      clickbaitMatches ==
        Matches(CLICKBAIT_PATTERNS, LAMBDA p : RegexTest(p, titleText))
      inTitle == Matches(SENSATIONAL_WORDS, LAMBDA w : WordTest(w, titleText))
      inText == Matches(SENSATIONAL_WORDS, LAMBDA w : WordTest(w, fullText))
      \* a word found in the title is pushed twice, one found only in the
      \* rest of the text once
      sensationalLen == 2 * Cardinality(inTitle)
                          + Cardinality(inText \ inTitle)
      qualityMatches ==
        Matches(QUALITY_INDICATORS, LAMBDA q : Includes(fullText, toLowerCase(q)))
      s == keywordScores(Cardinality(clickbaitMatches), sensationalLen,
                         Cardinality(qualityMatches))
  IN [passed |-> s.passed,
      score |-> s.score,
      flaggedKeywords |-> clickbaitMatches \cup inTitle \cup inText,
      clickbaitScore |-> s.clickbaitScore,
      sensationalismScore |-> s.sensationalismScore,
      qualityIndicators |-> qualityMatches]

----------------------------------------------------------------------------
(* Layer 3: the content analyzer, heuristic strategy.                      *)

qualityPatterns == <<
    <<"a","c","c","o","r","d","i","n","g"," ","t","o">>,
    <<"r","e","s","e","a","r","c","h"," ","s","h","o","w","s">>,
    <<"s","t","u","d","y"," ","f","i","n","d","s">>,
    <<"d","a","t","a"," ","i","n","d","i","c","a","t","e","s">>,
    <<"e","x","p","e","r","t","s"," ","s","a","y">>,
    <<"o","f","f","i","c","i","a","l","s"," ","c","o","n","f","i","r","m">>,
    <<"r","e","p","o","r","t"," ","s","t","a","t","e","s">>,
    <<"a","n","a","l","y","s","i","s">>
  >>

opinionPatterns == <<
    <<"i"," ","t","h","i","n","k">>,
    <<"i"," ","b","e","l","i","e","v","e">>,
    <<"i","n"," ","m","y"," ","o","p","i","n","i","o","n">>,
    <<"a","r","g","u","a","b","l","y">>,
    <<"s","e","e","m","s"," ","l","i","k","e">>,
    <<"o","p","i","n","i","o","n",":">>,
    <<"e","d","i","t","o","r","i","a","l",":">>,
    <<"c","o","m","m","e","n","t","a","r","y",":">>,
    <<"p","e","r","s","p","e","c","t","i","v","e",":">>
  >>

sensationalPatterns == <<
    <<"s","h","o","c","k","i","n","g">>,
    <<"b","r","e","a","k","i","n","g">>,
    <<"u","r","g","e","n","t">>,
    <<"e","x","p","l","o","s","i","v","e">>,
    <<"b","o","m","b","s","h","e","l","l">>,
    <<"y","o","u"," ","w","o","n","'","t"," ","b","e","l","i","e","v","e">>,
    <<"u","n","b","e","l","i","e","v","a","b","l","e">>,
    <<"i","n","c","r","e","d","i","b","l","e">>
  >>

analyzeWithHeuristics(article) ==
  LET title == toLowerCase(OrEmpty(article.title))
      description == toLowerCase(OrEmpty(article.description))
      content == toLowerCase(OrEmpty(article.content))
      fullText == title \o <<" ">> \o description \o <<" ">> \o content
      qualityMatches ==
        Cardinality({n \in 1..Len(qualityPatterns) :
                       Includes(fullText, qualityPatterns[n])})
      opinionMatches ==
        Cardinality({n \in 1..Len(opinionPatterns) :
                       Includes(fullText, opinionPatterns[n])})
      sensationalMatches ==
        Cardinality({n \in 1..Len(sensationalPatterns) :
                       Includes(fullText, sensationalPatterns[n])})
      qualityScore ==
        60 + qualityMatches * 5 - sensationalMatches * 10 - opinionMatches * 5
           + (IF Len(content) > 500 THEN 5 ELSE 0)
           + (IF Len(content) > 1000 THEN 5 ELSE 0)
      credibilityScore == Min(100, Max(0, qualityScore + qualityMatches * 3))
  IN [qualityScore |-> Clamp(0, 100, qualityScore),
      biasScore |-> 0,
      credibilityScore |-> Clamp(0, 100, credibilityScore),
      isOpinion |-> opinionMatches > 0,
      isFactual |-> opinionMatches = 0 /\ sensationalMatches < 2,
      model |-> "heuristic-v1"]

----------------------------------------------------------------------------
(* The texts the model's articles carry.                                   *)

TitleScandal == <<"B","r","e","a","k","i","n","g",":"," ","S","h","o","c","k","i","n","g"," ","b","o","m","b","s","h","e","l","l"," ","s","c","a","n","d","a","l"," ","r","o","c","k","s"," ","c","i","t","y">>

TitleBudget == <<"C","i","t","y"," ","c","o","u","n","c","i","l"," ","a","p","p","r","o","v","e","s"," ","b","u","d","g","e","t">>

DescBudget == <<"O","f","f","i","c","i","a","l","s"," ","c","o","n","f","i","r","m"," ","t","h","e"," ","p","l","a","n",","," ","a","c","c","o","r","d","i","n","g"," ","t","o"," ","a"," ","r","e","p","o","r","t",".">>

\* Body text of n characters without any pattern in it.
Filler(n) == [i \in 1..n |-> IF i % 6 = 0 THEN " " ELSE "x"]

\* The raw articles the news API hands to the ingestion step.
RawArticles == <<
    [url |-> "https://rumor.example/scandal", title |-> Some(TitleScandal),
     description |-> Some(<<>>), content |-> None,
     source |-> [name |-> "Daily Rumor"]],
    [url |-> "https://reuters.example/budget", title |-> Some(TitleBudget),
     description |-> Some(DescBudget), content |-> Some(Filler(1001)),
     source |-> [name |-> "Reuters"]]
  >>

Urls == {RawArticles[n].url : n \in 1..Len(RawArticles)}
SourceNames == {RawArticles[n].source.name : n \in 1..Len(RawArticles)}

\* The text fields of an article, as the analyzers read them.
TextOf(article) ==
  [title |-> article.title, description |-> article.description,
   content |-> article.content]

\* analyzeKeywords and analyzeWithHeuristics are functions of the text alone:
\* their results for the texts above are computed once and looked up.
KeywordResults ==
  <<analyzeKeywords(TextOf(RawArticles[1])),
    analyzeKeywords(TextOf(RawArticles[2]))>>
HeuristicResults ==
  <<analyzeWithHeuristics(TextOf(RawArticles[1])),
    analyzeWithHeuristics(TextOf(RawArticles[2]))>>

TextIndex(article) ==
  CHOOSE n \in 1..Len(RawArticles) : TextOf(RawArticles[n]) = TextOf(article)

----------------------------------------------------------------------------
(* Layer 2: the Source collection and the credibility service.             *)

RatingRows == <<
    <<"Reuters", 95, "center", "very-high">>,
    <<"Associated Press", 95, "center", "very-high">>,
    <<"BBC News", 90, "center-left", "high">>,
    <<"BBC", 90, "center-left", "high">>,
    <<"NPR", 88, "center-left", "high">>,
    <<"PBS", 88, "center", "high">>,
    <<"The Guardian", 85, "left", "high">>,
    <<"The New York Times", 85, "center-left", "high">>,
    <<"The Washington Post", 85, "center-left", "high">>,
    <<"Wall Street Journal", 85, "center-right", "high">>,
    <<"The Economist", 88, "center", "high">>,
    <<"Financial Times", 88, "center", "high">>,
    <<"Bloomberg", 85, "center", "high">>,
    <<"Al Jazeera English", 75, "center-left", "mixed">>,
    <<"CNN", 70, "left", "mixed">>,
    <<"Fox News", 55, "right", "mixed">>,
    <<"MSNBC", 60, "left", "mixed">>,
    <<"Breitbart News", 35, "right", "low">>,
    <<"The Daily Mail", 45, "right", "low">>,
    <<"BuzzFeed News", 65, "left", "mixed">>,
    <<"Vice News", 70, "left", "high">>,
    <<"ABC News", 80, "center-left", "high">>,
    <<"CBS News", 80, "center-left", "high">>,
    <<"NBC News", 78, "center-left", "high">>,
    <<"USA Today", 75, "center-left", "high">>,
    <<"Time", 80, "center-left", "high">>,
    <<"Newsweek", 70, "center-left", "mixed">>,
    <<"The Hill", 75, "center", "high">>,
    <<"Politico", 78, "center-left", "high">>,
    <<"The Atlantic", 82, "center-left", "high">>,
    <<"Axios", 82, "center", "high">>,
    <<"Business Insider", 72, "center-left", "high">>,
    <<"TechCrunch", 75, "center-left", "high">>,
    <<"Wired", 78, "center-left", "high">>,
    <<"Ars Technica", 80, "center", "high">>,
    <<"The Verge", 75, "center-left", "high">>,
    <<"Engadget", 75, "center", "high">>
  >>


\* Source.DEFAULT_RATINGS, keyed by source name.
DEFAULT_RATINGS ==
  [name \in {RatingRows[n][1] : n \in 1..Len(RatingRows)} |->
     LET row == RatingRows[CHOOSE n \in 1..Len(RatingRows) :
                             RatingRows[n][1] = name]
     IN [overallScore |-> row[2], biasRating |-> row[3],
         factualReporting |-> row[4]]]

\* Source.findOne({ name }): the first document of that name, if any.
findOne(coll, name) ==
  IF \E n \in 1..Len(coll) : coll[n].name = name
  THEN Some(coll[CHOOSE n \in 1..Len(coll) :
                   /\ coll[n].name = name
                   /\ \A m \in 1..(n - 1) : coll[m].name # name])
  ELSE None

\* The collection without the unique index: no insert is refused.
NoUniqueIndex(coll, doc) == FALSE

\* The unique index on Source.name: an insert of a second document with a
\* name already in the collection is refused with a duplicate-key error.
DuplicateKey(coll, doc) == \E n \in 1..Len(coll) : coll[n].name = doc.name

\* Source.create(doc): the collection afterwards; None stands for the
\* duplicate-key error being thrown.
create(coll, doc) ==
  IF DuplicateKey(coll, doc) THEN None ELSE Some(Append(coll, doc))

\* The document getOrCreateSource builds for a name it did not find.
NewSource(sourceName) ==
  LET defaultRating ==
        IF sourceName \in DOMAIN DEFAULT_RATINGS
        THEN DEFAULT_RATINGS[sourceName]
        ELSE [overallScore |-> 50, biasRating |-> "unknown",
              factualReporting |-> "unknown"]
  IN [name |-> sourceName,
      credibilityRating |->
        [overallScore |-> defaultRating.overallScore,
         biasRating |-> defaultRating.biasRating,
         factualReporting |-> defaultRating.factualReporting,
         source |-> IF sourceName \in DOMAIN DEFAULT_RATINGS
                    THEN "curated" ELSE "default"],
      totalArticlesFetched |-> 0]

\* getOrCreateSource handing back, after a create, a document that carries
\* the schema's default rating in place of the stored one.
getOrCreateSourceStaleCreate(coll, sourceName, fault) ==
  IF fault = "sourceFind"
  THEN [sources |-> coll, source |-> None, faulted |-> TRUE]
  ELSE LET found == findOne(coll, sourceName)
       IN IF found # None
          THEN [sources |-> coll, source |-> found, faulted |-> FALSE]
          ELSE IF fault = "sourceCreate"
               THEN [sources |-> coll, source |-> None, faulted |-> TRUE]
               ELSE [sources |-> Append(coll, NewSource(sourceName)),
                     source |->
                       Some([NewSource(sourceName) EXCEPT
                               !.credibilityRating =
                                  [overallScore |-> 50,
                                   biasRating |-> "unknown",
                                   factualReporting |-> "unknown",
                                   source |-> "default"]]),
                     faulted |-> FALSE]

\* getOrCreateSource without the lookup: every call creates.
getOrCreateSourceNoLookup(coll, sourceName, fault) ==
  IF fault \in {"sourceFind", "sourceCreate"}
  THEN [sources |-> coll, source |-> None, faulted |-> TRUE]
  ELSE LET made == create(coll, NewSource(sourceName))
       IN IF made = None
          THEN [sources |-> coll, source |-> None, faulted |-> FALSE]
          ELSE [sources |-> The(made), source |-> Some(NewSource(sourceName)),
                faulted |-> FALSE]

\* Source.getOrCreateSource(sourceName), run without interruption.  fault
\* names the store operation that fails during this call, if it is reached.
\* The result carries the collection afterwards, the returned document (None
\* when the call threw) and whether the fault occurred.
getOrCreateSource(coll, sourceName, fault) ==
  IF fault = "sourceFind"
  THEN [sources |-> coll, source |-> None, faulted |-> TRUE]
  ELSE LET found == findOne(coll, sourceName)
       IN IF found # None
          THEN [sources |-> coll, source |-> found, faulted |-> FALSE]
          ELSE IF fault = "sourceCreate"
               THEN [sources |-> coll, source |-> None, faulted |-> TRUE]
               ELSE LET made == create(coll, NewSource(sourceName))
                    IN IF made = None
                       THEN [sources |-> coll, source |-> None,
                             faulted |-> FALSE]
                       ELSE [sources |-> The(made),
                             source |-> Some(NewSource(sourceName)),
                             faulted |-> FALSE]

\* What getSourceCredibility returns for the outcome of getOrCreateSource.
credibilityOf(got) ==
  IF got.source # None
  THEN LET rating == The(got.source).credibilityRating
       IN [sourceRating |-> rating.overallScore,
           biasRating |-> rating.biasRating,
           factualReporting |-> rating.factualReporting,
           overallScore |-> rating.overallScore,
           ratingSource |-> rating.source]
  ELSE [sourceRating |-> 50, biasRating |-> "unknown",
        factualReporting |-> "unknown", overallScore |-> 50,
        ratingSource |-> "default"]

\* getSourceCredibility without its catch block: a store failure is thrown
\* on to the caller.
getSourceCredibilityRethrows(coll, sourceName, fault) ==
  LET got == getOrCreateSource(coll, sourceName, fault)
  IN [sources |-> got.sources, threw |-> got.source = None,
      rating |-> credibilityOf(got), faulted |-> got.faulted]

\* getSourceCredibility(sourceName): the collection afterwards, whether the
\* call threw, and the rating it returned.
getSourceCredibility(coll, sourceName, fault) ==
  LET got == getOrCreateSource(coll, sourceName, fault)
  IN [sources |-> got.sources, threw |-> FALSE, rating |-> credibilityOf(got),
      faulted |-> got.faulted]

----------------------------------------------------------------------------
(* Layer 3: the content analyzer, external-model strategy.                 *)

\* Boolean(analysis.isOpinion) and (analysis.isFactual !== false).
TruthyFlag(opt) == opt = Some(TRUE)
NotFalse(opt) == opt # Some(FALSE)

\* A field of the parsed reply: missing, a JSON number, or a JSON string.
Undefined == [type |-> "undefined"]
Number(n) == [type |-> "number", value |-> n]
String(chars) == [type |-> "string", chars |-> chars]

\* The value of a string of decimal digits.
RECURSIVE DigitsValue(_)
DigitsValue(chars) ==
  IF chars = <<>> THEN 0
  ELSE 10 * DigitsValue(SubSeq(chars, 1, Len(chars) - 1))
         + (CHOOSE d \in 0..9 : ToString(d) = chars[Len(chars)])

\* The conversion to a number that Math.min and Math.max apply to their
\* arguments: a string converts when it is a decimal numeral, else to NaN.
ToNumber(v) ==
  IF v.type = "number" THEN v.value
  ELSE IF v.type = "string"
       THEN IF v.chars = <<>> THEN 0
            ELSE IF \A i \in 1..Len(v.chars) : v.chars[i] \in Digits
                 THEN DigitsValue(v.chars)
                 ELSE NaN
       ELSE NaN

\* undefined, 0 and the empty string are falsy.
Falsy(v) ==
  \/ v.type = "undefined"
  \/ v.type = "number" /\ v.value = 0
  \/ v.type = "string" /\ v.chars = <<>>

\* Math.max(lo, Math.min(hi, value || orElse))
ClampOr(lo, hi, v, orElse) ==
  With(IF Falsy(v) THEN orElse ELSE ToNumber(v), LAMBDA n :
    IF n = NaN THEN NaN ELSE Clamp(lo, hi, n))

\* analyzeWithAI(article).  backend is what the completion request did:
\* kind "error" for a failed request, kind "text" for content that
\* JSON.parse rejects, kind "json" with the parsed fields.
analyzeWithAI(article, configured, backend) ==
  IF ~configured \/ backend.kind \in {"error", "text"}
  THEN HeuristicResults[TextIndex(article)]
  ELSE [qualityScore |-> ClampOr(0, 100, backend.qualityScore, 50),
        biasScore |-> ClampOr(-100, 100, backend.biasScore, 0),
        credibilityScore |-> ClampOr(0, 100, backend.credibilityScore, 50),
        isOpinion |-> TruthyFlag(backend.isOpinion),
        isFactual |-> NotFalse(backend.isFactual),
        model |-> "gpt-3.5-turbo"]

----------------------------------------------------------------------------
(* Layer 4: the weighted overall score.                                    *)

\* The layer weights, in hundredths.
WEIGHTS == [keyword |-> 20, credibility |-> 30, aiQuality |-> 25,
            aiCredibility |-> 10, engagement |-> 15]

PASSING_THRESHOLD == 60

\* layer?.field of an optional layer record whose field is optional too.
Field(layer, name) == IF layer = None THEN None ELSE The(layer)[name]

\* metadata.keywordFilter, .credibility and .aiAnalysis are optional layer
\* records.  totalScore is kept in hundredths; the source's normalizedScore
\* is computed and never used.
calculateOverallScore(metadata) ==
  LET scores == [keyword |-> OrFifty(Field(metadata.keywordFilter, "score")),
                 credibility |->
                   OrFifty(Field(metadata.credibility, "overallScore")),
                 aiQuality |->
                   OrFifty(Field(metadata.aiAnalysis, "qualityScore")),
                 aiCredibility |->
                   OrFifty(Field(metadata.aiAnalysis, "credibilityScore")),
                 engagement |-> 50]
      totalScore == scores.keyword * WEIGHTS.keyword
                      + scores.credibility * WEIGHTS.credibility
                      + scores.aiQuality * WEIGHTS.aiQuality
                      + scores.aiCredibility * WEIGHTS.aiCredibility
                      + scores.engagement * WEIGHTS.engagement
  IN (Clamp(0, 10000, totalScore) + 50) \div 100

\* The status derived with the passing threshold as the approval bar.
statusForScoreAtPassing(overallScore) ==
  IF overallScore >= PASSING_THRESHOLD THEN "approved"
  ELSE IF overallScore < 40 THEN "rejected"
  ELSE "pending"

\* The curation status processArticle derives from the overall score.
statusForScore(overallScore) ==
  IF overallScore >= 70 THEN "approved"
  ELSE IF overallScore < 40 THEN "rejected"
  ELSE "pending"

----------------------------------------------------------------------------
(* The pipeline: processArticle.                                           *)

\* processArticle(article): the article as the pipeline leaves it, the
\* Source collection afterwards, whether the call threw, what
\* getSourceCredibility returned to it and whether the fault occurred.  fault names
\* the store operation that fails during the call, backend the outcome of
\* the completion request.  Category.categorizeArticle reads the Category
\* collection and throws when that read fails; the categories it assigns
\* are not modelled.
processArticle(article, coll, configured, fault, backend) ==
  With(KeywordResults[TextIndex(article)], LAMBDA keywordResults :
  With(getSourceCredibility(coll, article.source.name, fault),
       LAMBDA credibility :
  With(analyzeWithAI(article, configured, backend), LAMBDA aiResults :
  With([keywordFilter |->
          Some([passed |-> keywordResults.passed,
                flaggedKeywords |-> keywordResults.flaggedKeywords,
                clickbaitScore |-> keywordResults.clickbaitScore,
                sensationalismScore |-> keywordResults.sensationalismScore,
                score |-> Some(keywordResults.score)]),
        credibility |->
          Some([sourceRating |-> credibility.rating.sourceRating,
                biasRating |-> credibility.rating.biasRating,
                factualReporting |-> credibility.rating.factualReporting,
                overallScore |-> Some(credibility.rating.overallScore)]),
        aiAnalysis |->
          Some([qualityScore |-> Some(aiResults.qualityScore),
                biasScore |-> aiResults.biasScore,
                credibilityScore |-> Some(aiResults.credibilityScore),
                isOpinion |-> aiResults.isOpinion,
                isFactual |-> aiResults.isFactual,
                model |-> aiResults.model])],
       LAMBDA layers :
  With(calculateOverallScore(layers), LAMBDA overallScore :
  With([article EXCEPT
          !.filteringMetadata =
            [keywordFilter |-> layers.keywordFilter,
             credibility |-> layers.credibility,
             aiAnalysis |-> layers.aiAnalysis,
             overallScore |-> overallScore,
             isPassing |-> overallScore >= PASSING_THRESHOLD,
             filterVersion |-> "1.0"]],
       LAMBDA scored :
    IF credibility.threw
    THEN [threw |-> TRUE, article |-> article, sources |-> coll,
          rating |-> None, faulted |-> credibility.faulted]
    ELSE IF fault = "categoryFind"
    THEN [threw |-> TRUE, article |-> scored,
          sources |-> credibility.sources,
          rating |-> Some(credibility.rating), faulted |-> TRUE]
    ELSE [threw |-> FALSE,
          article |-> [scored EXCEPT
                         !.curation.status = statusForScore(overallScore)],
          sources |-> credibility.sources,
          rating |-> Some(credibility.rating),
          faulted |-> credibility.faulted]))))))

----------------------------------------------------------------------------
(* The inputs of the handlers.                                             *)

\* What the completion request can come back with.
BackendError ==
  [kind |-> "error", qualityScore |-> Undefined, biasScore |-> Undefined,
   credibilityScore |-> Undefined, isOpinion |-> None, isFactual |-> None]
BackendOutcomes ==
  {BackendError,
   [kind |-> "json", qualityScore |-> Number(10), biasScore |-> Number(-20),
    credibilityScore |-> Number(10), isOpinion |-> Some(FALSE),
    isFactual |-> None]}

\* The ratings an administrator gives a source by hand.
ManualRatings ==
  {[overallScore |-> 10, biasRating |-> "right",
    factualReporting |-> "very-low", source |-> None],
   [overallScore |-> 80, biasRating |-> "center",
    factualReporting |-> "high", source |-> Some("expert")]}

\* The statuses an administrator sets by hand.
ManualStatuses == {"approved", "flagged"}

----------------------------------------------------------------------------
(* Ingestion, reprocessing and the administrator's writes.                 *)

\* new Article({...}) in processAndStoreArticle, with the schema defaults.
NewArticle(rawArticle) ==
  [url |-> rawArticle.url,
   title |-> rawArticle.title,
   description |-> rawArticle.description,
   content |-> rawArticle.content,
   source |-> [name |-> rawArticle.source.name],
   filteringMetadata |->
     [keywordFilter |-> None, credibility |-> None, aiAnalysis |-> None,
      overallScore |-> 50, isPassing |-> FALSE, filterVersion |-> "1.0"],
   curation |-> [status |-> "pending", curatedBy |-> None]]

\* Article.findOne({ url })
findByUrl(arts, url) == {n \in 1..Len(arts) : arts[n].url = url}

\* updateSourceStats(sourceName): findOneAndUpdate without upsert.
updateSourceStats(coll, sourceName) ==
  IF findOne(coll, sourceName) = None THEN coll
  ELSE LET n == CHOOSE k \in 1..Len(coll) :
                  /\ coll[k].name = sourceName
                  /\ \A m \in 1..(k - 1) : coll[m].name # sourceName
       IN [coll EXCEPT ![n].totalArticlesFetched = @ + 1]

\* processAndStoreArticle(rawArticle): both collections afterwards, the value
\* returned (the saved article or null), what getSourceCredibility returned
\* during the call and whether the fault occurred.
processAndStoreArticle(rawArticle, arts, coll, configured, fault, backend) ==
  IF findByUrl(arts, rawArticle.url) # {}
  THEN [articles |-> arts, sources |-> coll, returned |-> None,
        rating |-> None, faulted |-> FALSE]
  ELSE With(processArticle(NewArticle(rawArticle), coll, configured, fault,
                           backend),
            LAMBDA run :
         IF run.threw \/ fault = "articleSave"
         THEN [articles |-> arts, sources |-> run.sources, returned |-> None,
               rating |-> run.rating,
               faulted |-> run.faulted \/ fault = "articleSave"]
         ELSE [articles |-> Append(arts, run.article),
               sources |-> updateSourceStats(run.sources,
                                             run.article.source.name),
               returned |-> Some(run.article),
               rating |-> run.rating, faulted |-> run.faulted])

\* No store operation fails during the call.
NoFault == [at |-> 0, kind |-> "none"]

\* The loop of reprocessAllArticles from the n-th article on: processArticle
\* and save for each, the first error ending the whole call.  fault.at is
\* the article during whose processing the store operation fault.kind fails.
RECURSIVE reprocessFrom(_, _, _, _, _, _, _)
reprocessFrom(n, arts, coll, configured, fault, backends, processed) ==
  IF n > Len(arts)
  THEN [articles |-> arts, sources |-> coll, processed |-> processed,
        threw |-> FALSE, faulted |-> FALSE]
  ELSE With(IF fault.at = n THEN fault.kind ELSE "none", LAMBDA kind :
       With(processArticle(arts[n], coll, configured, kind, backends[n]),
            LAMBDA run :
         IF run.threw \/ kind = "articleSave"
         THEN [articles |-> arts, sources |-> run.sources,
               processed |-> processed, threw |-> TRUE, faulted |-> TRUE]
         ELSE [reprocessFrom(n + 1, [arts EXCEPT ![n] = run.article],
                             run.sources, configured, fault, backends,
                             processed \cup {arts[n].url})
                 EXCEPT !.faulted = @ \/ run.faulted]))

reprocessAllArticles(arts, coll, configured, fault, backends) ==
  reprocessFrom(1, arts, coll, configured, fault, backends, {})

\* updateSourceCredibility stamping 'manual' whatever the caller passed.
updateSourceCredibilityAlwaysManual(coll, sourceName, rating) ==
  LET credibilityRating ==
        [overallScore |-> rating.overallScore,
         biasRating |-> rating.biasRating,
         factualReporting |-> rating.factualReporting,
         source |-> "manual"]
  IN IF findOne(coll, sourceName) = None
     THEN Append(coll, [name |-> sourceName,
                        credibilityRating |-> credibilityRating,
                        totalArticlesFetched |-> 0])
     ELSE LET n == CHOOSE k \in 1..Len(coll) :
                     /\ coll[k].name = sourceName
                     /\ \A m \in 1..(k - 1) : coll[m].name # sourceName
          IN [coll EXCEPT ![n].credibilityRating = credibilityRating]

\* updateSourceCredibility(sourceName, rating): findOneAndUpdate with upsert.
updateSourceCredibility(coll, sourceName, rating) ==
  LET credibilityRating ==
        [overallScore |-> rating.overallScore,
         biasRating |-> rating.biasRating,
         factualReporting |-> rating.factualReporting,
         source |-> IF rating.source = None THEN "manual"
                    ELSE The(rating.source)]
  IN IF findOne(coll, sourceName) = None
     THEN Append(coll, [name |-> sourceName,
                        credibilityRating |-> credibilityRating,
                        totalArticlesFetched |-> 0])
     ELSE LET n == CHOOSE k \in 1..Len(coll) :
                     /\ coll[k].name = sourceName
                     /\ \A m \in 1..(k - 1) : coll[m].name # sourceName
          IN [coll EXCEPT ![n].credibilityRating = credibilityRating]

\* The first document of each name: the one findOneAndUpdate touches.
IsFirstOfName(coll, n) == \A m \in 1..(n - 1) : coll[m].name # coll[n].name

\* initializeDefaultSources(): one upsert per entry of DEFAULT_RATINGS, in
\* the table's order.  The loop's result: every table name already stored
\* has its rating overwritten, the others are inserted in table order.
initializeDefaultSources(coll) ==
  LET curated(name) ==
        [overallScore |-> DEFAULT_RATINGS[name].overallScore,
         biasRating |-> DEFAULT_RATINGS[name].biasRating,
         factualReporting |-> DEFAULT_RATINGS[name].factualReporting,
         source |-> "curated"]
      stored == {coll[n].name : n \in 1..Len(coll)}
      \* the first row of each table name (the table lists no name twice)
      missing == SelectSeq([n \in 1..Len(RatingRows) |-> RatingRows[n][1]],
                           LAMBDA name : name \notin stored)
  IN [n \in 1..Len(coll) |->
        IF coll[n].name \in DOMAIN DEFAULT_RATINGS /\ IsFirstOfName(coll, n)
        THEN [coll[n] EXCEPT !.credibilityRating = curated(coll[n].name)]
        ELSE coll[n]]
     \o [n \in 1..Len(missing) |->
           [name |-> missing[n], credibilityRating |-> curated(missing[n]),
            totalArticlesFetched |-> 0]]

\* An administrator sets the curation status of a stored article.
manualCurate(arts, url, status) ==
  [n \in 1..Len(arts) |->
     IF arts[n].url = url
     THEN [arts[n] EXCEPT !.curation = [status |-> status,
                                        curatedBy |-> Some("admin")]]
     ELSE arts[n]]

----------------------------------------------------------------------------
(* The server as a sequence of handler calls, each run to completion.      *)

\* The record of a handler call kept in `last`: the handler, the article it
\* was about, the store fault that occurred during it, whether the article's
\* source was stored before the call, what getSourceCredibility returned to
\* processArticle, whether the handler returned an article, and the articles
\* it processed and saved.
Call(op, url, fault, existed, rating, returned, processed) ==
  [op |-> op, url |-> url, fault |-> fault, sourceExisted |-> existed,
   rating |-> rating, returned |-> returned, processed |-> processed]

NoCall == Call("none", "", "none", FALSE, None, FALSE, {})

IngestFaults == {"none", "sourceFind", "sourceCreate", "categoryFind",
                 "articleSave"}
ReprocessFaults == {"sourceFind", "sourceCreate", "categoryFind",
                    "articleSave"}

\* The backend outcomes a call can meet: none is consulted without a client.
Backends == IF openai THEN BackendOutcomes ELSE {BackendError}

Init ==
  /\ fnIn = <<>>
  /\ fnOut = <<>>
  /\ sources = <<>>
  /\ articles = <<>>
  /\ openai \in BOOLEAN
  /\ last = NoCall
  /\ calls = <<>>
  /\ callers = <<>>
  /\ viralNews = <<>>
  /\ cache = {}

\* A call is described by the fault that occurred in it and by the backend
\* outcomes of the analyses whose result was kept: a fault on an operation
\* the call never reached, or an outcome of an analysis that was discarded,
\* does not make another call.
ProcessAndStoreArticle ==
  \E n \in 1..Len(RawArticles), fault \in IngestFaults, backend \in Backends :
    \E raw \in {RawArticles[n]} :
    \E done \in {processAndStoreArticle(raw, articles, sources, openai, fault,
                                        backend)} :
       /\ fault # "none" => done.faulted
       /\ done.returned = None => backend = BackendError
       /\ articles' = done.articles
       /\ sources' = done.sources
       /\ last' = Call("processAndStoreArticle", raw.url, fault,
                       findOne(sources, raw.source.name) # None,
                       done.rating, done.returned # None,
                       IF done.returned = None THEN {} ELSE {raw.url})
       /\ UNCHANGED <<fnVars, openai, viralNews, cache>>

ReprocessAllArticles ==
  \E fault \in {NoFault} \cup
               [at : 1..Len(articles), kind : ReprocessFaults],
     backends \in [1..Len(articles) -> Backends] :
    \E done \in {reprocessAllArticles(articles, sources, openai, fault,
                                      backends)} :
       /\ fault # NoFault => done.faulted
       /\ \A n \in 1..Len(articles) :
            articles[n].url \notin done.processed => backends[n] = BackendError
       /\ articles' = done.articles
       /\ sources' = done.sources
       /\ last' = Call("reprocessAllArticles",
                       IF fault.at = 0 THEN "" ELSE articles[fault.at].url,
                       fault.kind, FALSE, None, ~done.threw, done.processed)
       /\ UNCHANGED <<fnVars, openai, viralNews, cache>>

ManualCurate ==
  \E url \in Urls, status \in ManualStatuses :
    /\ findByUrl(articles, url) # {}
    /\ articles' = manualCurate(articles, url, status)
    /\ last' = Call("manualCurate", url, "none", FALSE, None, FALSE, {})
    /\ UNCHANGED <<fnVars, sources, openai, viralNews, cache>>

Next ==
  \/ ProcessAndStoreArticle
  \/ ReprocessAllArticles
  \/ ManualCurate

Spec == Init /\ [][Next]_vars

----------------------------------------------------------------------------
(* analyzeKeywords over every combination of match-list lengths.           *)

KeywordInputs ==
  {in \in [clickbait : 0..Len(CLICKBAIT_PATTERNS),
           inTitle : 0..Len(SENSATIONAL_WORDS),
           inTextOnly : 0..Len(SENSATIONAL_WORDS),
           quality : 0..Len(QUALITY_INDICATORS)] :
     in.inTitle + in.inTextOnly <= Len(SENSATIONAL_WORDS)}

InitKeywords ==
  /\ fnIn \in KeywordInputs
  /\ fnOut = <<>>
  /\ sources = <<>>
  /\ articles = <<>>
  /\ openai = FALSE
  /\ last = NoCall
  /\ calls = <<>>
  /\ callers = <<>>
  /\ viralNews = <<>>
  /\ cache = {}

AnalyzeKeywords ==
  /\ fnOut = <<>>
  /\ fnOut' = <<keywordScores(fnIn.clickbait,
                              2 * fnIn.inTitle + fnIn.inTextOnly,
                              fnIn.quality)>>
  /\ UNCHANGED <<fnIn, calls, callers, storeVars, viralNews, cache>>

NextKeywords == AnalyzeKeywords

SpecKeywords == InitKeywords /\ [][NextKeywords]_vars

----------------------------------------------------------------------------
(* analyzeWithAI over the replies of the completion request.               *)

\* The values a score field of the reply is drawn from.
ReplyValues ==
  {Undefined, Number(0), Number(72), Number(150), Number(-150),
   String(<<>>), String(<<"8","5">>), String(<<"h","i","g","h">>)}

AIOutcomes ==
  {BackendError,
   [BackendError EXCEPT !.kind = "text"]}
  \cup [kind : {"json"}, qualityScore : ReplyValues, biasScore : ReplyValues,
        credibilityScore : ReplyValues, isOpinion : {None, Some(TRUE)},
        isFactual : {None, Some(FALSE)}]

InitAI ==
  /\ fnIn \in [article : 1..Len(RawArticles), configured : BOOLEAN,
               backend : AIOutcomes]
  /\ fnOut = <<>>
  /\ sources = <<>>
  /\ articles = <<>>
  /\ openai = FALSE
  /\ last = NoCall
  /\ calls = <<>>
  /\ callers = <<>>
  /\ viralNews = <<>>
  /\ cache = {}

AnalyzeWithAI ==
  /\ fnOut = <<>>
  /\ fnOut' = <<analyzeWithAI(NewArticle(RawArticles[fnIn.article]),
                              fnIn.configured, fnIn.backend)>>
  /\ UNCHANGED <<fnIn, calls, callers, storeVars, viralNews, cache>>

NextAI == AnalyzeWithAI

SpecAI == InitAI /\ [][NextAI]_vars

\* C12: whatever the completion request does, analyzeWithAI returns a
\* qualityScore and a credibilityScore in 0..100 and a biasScore in
\* -100..100, and after a failed request or content that does not parse the
\* result is the heuristic one, model 'heuristic-v1'.
C12_ScoresInRangeForEveryReply ==
  fnOut # <<>> =>
    /\ fnOut[1].qualityScore \in 0..100
    /\ fnOut[1].credibilityScore \in 0..100
    /\ fnOut[1].biasScore \in -100..100
    /\ fnIn.backend.kind \in {"error", "text"} =>
         /\ fnOut[1] = HeuristicResults[fnIn.article]
         /\ fnOut[1].model = "heuristic-v1"

----------------------------------------------------------------------------
(* calculateOverallScore over a grid of layer scores, each layer present   *)
(* or missing.                                                             *)

ScoreStep == 10

ScoreGrid == {n \in 0..100 : n % ScoreStep = 0}

Optional(S) == {None} \cup {Some(v) : v \in S}

ScoreInputs ==
  [keyword : Optional(ScoreGrid), credibility : Optional(ScoreGrid),
   aiQuality : Optional(ScoreGrid), aiCredibility : Optional(ScoreGrid)]

\* The filteringMetadata that carries the layer scores of fnIn.
MetadataOf(in) ==
  [keywordFilter |->
     IF in.keyword = None THEN None ELSE Some([score |-> in.keyword]),
   credibility |->
     IF in.credibility = None THEN None
     ELSE Some([overallScore |-> in.credibility]),
   aiAnalysis |->
     IF in.aiQuality = None /\ in.aiCredibility = None THEN None
     ELSE Some([qualityScore |-> in.aiQuality,
                credibilityScore |-> in.aiCredibility])]

InitScore ==
  /\ fnIn \in ScoreInputs
  /\ fnOut = <<>>
  /\ sources = <<>>
  /\ articles = <<>>
  /\ openai = FALSE
  /\ last = NoCall
  /\ calls = <<>>
  /\ callers = <<>>
  /\ viralNews = <<>>
  /\ cache = {}

CalculateOverallScore ==
  /\ fnOut = <<>>
  /\ fnOut' = <<calculateOverallScore(MetadataOf(fnIn))>>
  /\ UNCHANGED <<fnIn, calls, callers, storeVars, viralNews, cache>>

NextScore == CalculateOverallScore

SpecScore == InitScore /\ [][NextScore]_vars

----------------------------------------------------------------------------
(* Claims.                                                                 *)

\* The weighted sum the specification describes, in hundredths: a present
\* layer counts with its own score, a missing one with 50.
PresentOrFifty(opt) == IF opt = None THEN 50 ELSE The(opt)

WeightedSum(in) ==
  20 * PresentOrFifty(in.keyword) + 30 * PresentOrFifty(in.credibility)
    + 25 * PresentOrFifty(in.aiQuality) + 10 * PresentOrFifty(in.aiCredibility)
    + 15 * 50

\* C1: for all layer scores k, c, q, a in 0..100, calculateOverallScore
\* returns round(clamp(0.20k + 0.30c + 0.25q + 0.10a + 7.5, 0, 100)), where a
\* present score of 0 counts as 0 and only a missing layer counts as 50.
C1_WeightedSumOfPresentLayers ==
  fnOut # <<>> =>
    fnOut[1] = (Clamp(0, 10000, WeightedSum(fnIn)) + 50) \div 100

\* C6: analyzeKeywords returns a score in 0..100 and passed = (score >= 50),
\* score being the rounded value handed to the caller.
C6_ScoreInRangeAndPassedConsistent ==
  fnOut # <<>> =>
    /\ fnOut[1].score \in 0..100
    /\ fnOut[1].passed = (fnOut[1].score >= 50)

\* C6 witness: a call with clickbait, sensational and quality matches whose
\* unrounded score ends in .5 has returned.
C6_Witness ==
  /\ fnOut # <<>>
  /\ fnIn.clickbait = 1 /\ fnIn.inTitle = 1 /\ fnIn.inTextOnly = 1
  /\ fnIn.quality = 1
  /\ fnOut[1].score = 73

----------------------------------------------------------------------------
(* Claims about the pipeline handlers, under Spec.                         *)

IngestOp == "processAndStoreArticle"
ReprocessOp == "reprocessAllArticles"

\* The stored articles the last handler call ran processArticle on and saved.
Processed == {n \in 1..Len(articles) : articles[n].url \in last.processed}

\* The store faults that hit the credibility lookup of processArticle.
CredibilityFaults == {"sourceFind", "sourceCreate"}

\* The rating of the credibility layer with every field at its neutral value.
NeutralLayer ==
  [sourceRating |-> 50, biasRating |-> "unknown",
   factualReporting |-> "unknown", overallScore |-> Some(50)]

C3_StepFailureStillStores ==
  (last.op = IngestOp
     /\ last.fault \in CredibilityFaults \cup {"categoryFind"}) =>
    /\ last.returned
    /\ \E n \in Processed :
         /\ articles[n].url = last.url
         /\ last.fault \in CredibilityFaults =>
              articles[n].filteringMetadata.credibility = Some(NeutralLayer)
         /\ articles[n].curation.status =
              statusForScore(articles[n].filteringMetadata.overallScore)

Outcome(article) ==
  <<article.filteringMetadata.overallScore,
    article.filteringMetadata.isPassing, article.curation.status>>

LookupWorked(l, url) == ~(l.fault \in CredibilityFaults /\ l.url = url)

Heuristic(article) ==
  The(article.filteringMetadata.aiAnalysis).model = "heuristic-v1"

ScandalIngested(n) ==
  /\ last.op = IngestOp
  /\ last.returned
  /\ ~last.sourceExisted
  /\ n \in Processed
  /\ articles[n].title = Some(TitleScandal)
  /\ articles[n].source.name \notin DOMAIN DEFAULT_RATINGS

\* C7 as stated: the scandal article from an unknown, not yet stored source
\* gets clickbaitScore >= 30, credibility score 50 and a status of pending
\* or rejected.
C7_ScandalScenario ==
  \A n \in 1..Len(articles) :
    ScandalIngested(n) =>
      LET meta == articles[n].filteringMetadata
      IN /\ The(meta.keywordFilter).clickbaitScore >= 30
         /\ The(meta.credibility).overallScore = Some(50)
         /\ articles[n].curation.status \in {"pending", "rejected"}

\* C7 as amended: the title holds no clickbait phrase, so clickbaitScore is
\* 0; its four sensational words, counted twice each, put
\* sensationalismScore at 100; the rest is as stated.
C7_ScandalScenarioSensational ==
  \A n \in 1..Len(articles) :
    ScandalIngested(n) =>
      LET meta == articles[n].filteringMetadata
      IN /\ The(meta.keywordFilter).clickbaitScore = 0
         /\ The(meta.keywordFilter).sensationalismScore = 100
         /\ The(meta.credibility).overallScore = Some(50)
         /\ articles[n].curation.status \in {"pending", "rejected"}

\* C7 witness: the scenario has run, without any fault, and left the article
\* pending.
C7_Witness ==
  \E n \in 1..Len(articles) :
    /\ ScandalIngested(n)
    /\ last.fault = "none"
    /\ articles[n].curation.status = "pending"

\* C10: if the store fails during the lookup or the creation inside
\* getSourceCredibility, the call returns the neutral rating with ratingSource
\* 'default', no error reaches processArticle, and the article is scored
\* with a credibility layer of 50.
C10_LookupFailureIsNeutral ==
  (last.op = IngestOp /\ last.fault \in CredibilityFaults) =>
    /\ last.rating = Some([sourceRating |-> 50, biasRating |-> "unknown",
                           factualReporting |-> "unknown",
                           overallScore |-> 50, ratingSource |-> "default"])
    /\ last.returned
    /\ \E n \in Processed :
         /\ articles[n].url = last.url
         /\ articles[n].filteringMetadata.credibility = Some(NeutralLayer)
         /\ articles[n].curation.status =
              statusForScore(articles[n].filteringMetadata.overallScore)

\* C10 witness: the lookup of Reuters, a curated source rated 95, failed and
\* its article was stored with a credibility layer of 50.
C10_Witness ==
  /\ last.op = IngestOp
  /\ last.fault = "sourceFind"
  /\ \E n \in Processed :
       /\ articles[n].source.name = "Reuters"
       /\ articles[n].filteringMetadata.credibility = Some(NeutralLayer)

----------------------------------------------------------------------------
(* The fact checker: analyzeForMisinformation.                             *)

Whitespace == {" ", "\t", "\n"}

\* A pattern is a sequence of tokens: "alt" matches one of its options (a
\* literal is the only option, an optional part has the empty option),
\* "rep" matches min or more characters of its class (\s*, \s+, \d+).
MISINFORMATION_PATTERNS ==
  [fabricated |-> <<
     <<[kind |-> "alt", options |-> {<<"b","r","e","a","k","i","n","g">>}],
       [kind |-> "rep", class |-> "space", min |-> 0],
       [kind |-> "alt", options |-> {<<":">>, <<>>}],
       [kind |-> "rep", class |-> "space", min |-> 0],
       [kind |-> "rep", class |-> "digit", min |-> 1],
       [kind |-> "rep", class |-> "space", min |-> 0],
       [kind |-> "alt", options |-> {<<"d","e","a","d">>, <<"k","i","l","l","e","d">>, <<"i","n","j","u","r","e","d">>}]>>,
     <<[kind |-> "alt", options |-> {<<"e","x","p","o","s","e","d">>}],
       [kind |-> "rep", class |-> "space", min |-> 0],
       [kind |-> "alt", options |-> {<<":">>, <<>>}],
       [kind |-> "rep", class |-> "space", min |-> 0],
       [kind |-> "alt", options |-> {<<"s","e","c","r","e","t">>, <<"h","i","d","d","e","n">>, <<"t","r","u","t","h">>}]>>,
     <<[kind |-> "alt", options |-> {<<"t","h","e","y">>}],
       [kind |-> "rep", class |-> "space", min |-> 1],
       [kind |-> "alt", options |-> {<<"d","o","n">>}],
       [kind |-> "alt", options |-> {<<"'">>, <<>>}],
       [kind |-> "alt", options |-> {<<"t">>}],
       [kind |-> "rep", class |-> "space", min |-> 1],
       [kind |-> "alt", options |-> {<<"w","a","n","t">>}],
       [kind |-> "rep", class |-> "space", min |-> 1],
       [kind |-> "alt", options |-> {<<"y","o","u">>}],
       [kind |-> "rep", class |-> "space", min |-> 1],
       [kind |-> "alt", options |-> {<<"t","o">>}],
       [kind |-> "rep", class |-> "space", min |-> 1],
       [kind |-> "alt", options |-> {<<"k","n","o","w">>}]>>
   >>,
   clickbait |-> <<
     <<[kind |-> "alt", options |-> {<<"y","o","u">>}],
       [kind |-> "rep", class |-> "space", min |-> 1],
       [kind |-> "alt", options |-> {<<"w","o","n">>}],
       [kind |-> "alt", options |-> {<<"'">>, <<>>}],
       [kind |-> "alt", options |-> {<<"t">>}],
       [kind |-> "rep", class |-> "space", min |-> 1],
       [kind |-> "alt", options |-> {<<"b","e","l","i","e","v","e">>}]>>,
     <<[kind |-> "alt", options |-> {<<"w","h","a","t">>}],
       [kind |-> "rep", class |-> "space", min |-> 1],
       [kind |-> "alt", options |-> {<<"h","a","p","p","e","n","e","d">>}],
       [kind |-> "rep", class |-> "space", min |-> 1],
       [kind |-> "alt", options |-> {<<"n","e","x","t">>}]>>,
     <<[kind |-> "alt", options |-> {<<"s","h","o","c","k","i","n","g">>}],
       [kind |-> "rep", class |-> "space", min |-> 1],
       [kind |-> "alt", options |-> {<<"t","r","u","t","h">>, <<"r","e","v","e","l","a","t","i","o","n">>, <<"s","e","c","r","e","t">>}]>>,
     <<[kind |-> "rep", class |-> "digit", min |-> 1],
       [kind |-> "rep", class |-> "space", min |-> 1],
       [kind |-> "alt", options |-> {<<"r","e","a","s","o","n">>}],
       [kind |-> "alt", options |-> {<<"s">>, <<>>}],
       [kind |-> "rep", class |-> "space", min |-> 1],
       [kind |-> "alt", options |-> {<<"w","h","y">>}]>>
   >>,
   emotional_manipulation |-> <<
     <<[kind |-> "alt", options |-> {<<"o","u","t","r","a","g","e">>, <<"o","u","t","r","a","g","e","d">>, <<"f","u","r","i","o","u","s">>, <<"a","n","g","e","r">>, <<"a","n","g","r","y">>}],
       [kind |-> "rep", class |-> "space", min |-> 1],
       [kind |-> "alt", options |-> {<<"o","v","e","r">>}]>>,
     <<[kind |-> "alt", options |-> {<<"s","l","a","m">>}],
       [kind |-> "alt", options |-> {<<"s">>, <<"m","e","d">>, <<>>}],
       [kind |-> "rep", class |-> "space", min |-> 1]>>,
     <<[kind |-> "alt", options |-> {<<"d","e","s","t","r","o","y">>}],
       [kind |-> "alt", options |-> {<<"s">>, <<"e","d">>, <<>>}],
       [kind |-> "rep", class |-> "space", min |-> 1]>>,
     <<[kind |-> "alt", options |-> {<<"e","p","i","c">>}],
       [kind |-> "alt", options |-> {<<"a","l","l","y">>, <<>>}],
       [kind |-> "rep", class |-> "space", min |-> 1],
       [kind |-> "alt", options |-> {<<"f","a","i","l">>, <<"b","u","r","n">>, <<"d","e","s","t","r","o","y">>}]>>
   >>,
   out_of_context |-> <<
     <<[kind |-> "alt", options |-> {<<"o","l","d">>}],
       [kind |-> "rep", class |-> "space", min |-> 1],
       [kind |-> "alt", options |-> {<<"v","i","d","e","o">>, <<"p","h","o","t","o">>, <<"i","m","a","g","e">>, <<"n","e","w","s">>}]>>,
     <<[kind |-> "alt", options |-> {<<"r","e","s","u","r","f","a","c","e","d">>}],
       [kind |-> "rep", class |-> "space", min |-> 1],
       [kind |-> "alt", options |-> {<<"v","i","d","e","o">>, <<"p","h","o","t","o">>, <<"c","l","i","p">>}]>>
   >>]

Letters == {LowerCase[n] : n \in 1..Len(LowerCase)}

\* Whether the character of a text in lower case is of the class.
InClass(c, class) ==
  CASE class = "digit" -> c \in Digits
    [] class = "space" -> c \in Whitespace
    [] class = "letter" -> c \in Letters
    [] class = "letterOrSpace" -> c \in Letters \cup Whitespace
    [] class = "notQuote" -> c # "\""

\* The positions a match can have reached after token, having reached one
\* of positions before it.
StepToken(s, positions, token) ==
  IF token.kind = "alt"
  THEN {pair[1] + Len(pair[2]) :
          pair \in {pr \in positions \X token.options :
                      /\ pr[1] + Len(pr[2]) - 1 <= Len(s)
                      /\ \A j \in 1..Len(pr[2]) : s[pr[1] + j - 1] = pr[2][j]}}
  ELSE {q \in 1..(Len(s) + 1) :
          \E p \in positions :
            /\ p + token.min <= q
            /\ \A k \in p..(q - 1) : InClass(s[k], token.class)}

RECURSIVE RunPattern(_, _, _, _)
RunPattern(s, pattern, j, positions) ==
  IF j > Len(pattern) \/ positions = {} THEN positions
  ELSE RunPattern(s, pattern, j + 1, StepToken(s, positions, pattern[j]))

\* pattern.test(text) for a pattern with the i flag.
PatternTest(pattern, text) ==
  RunPattern(toLowerCase(text), pattern, 1, 1..(Len(text) + 1)) # {}

\* The number of patterns of a category that the text matches.
CountTests(patterns, text) ==
  Cardinality({n \in 1..Len(patterns) : PatternTest(patterns[n], text)})

\* The flag pushed once per matching pattern.
Pushed(count, flag) == [n \in 1..count |-> flag]

SeqIncludes(seq, x) == \E n \in 1..Len(seq) : seq[n] = x

\* The out-of-context flag ranked below the clickbait flag.
analyzeForMisinformationClickbaitFirst(title, content) ==
  With(title \o <<" ">> \o OrEmpty(content), LAMBDA fullText :
  With(CountTests(MISINFORMATION_PATTERNS.fabricated, fullText), LAMBDA f :
  With(CountTests(MISINFORMATION_PATTERNS.clickbait, fullText), LAMBDA c :
  With(CountTests(MISINFORMATION_PATTERNS.emotional_manipulation, fullText),
       LAMBDA e :
  With(CountTests(MISINFORMATION_PATTERNS.out_of_context, fullText),
       LAMBDA o :
  With(Pushed(f, "fabricated_pattern") \o Pushed(c, "clickbait")
         \o Pushed(e, "emotional_manipulation")
         \o Pushed(o, "possibly_old_content"),
       LAMBDA flags :
    [type |-> IF SeqIncludes(flags, "fabricated_pattern") THEN "fabricated"
              ELSE IF SeqIncludes(flags, "clickbait")
                   THEN "misleading_headline"
              ELSE IF SeqIncludes(flags, "possibly_old_content")
                   THEN "out_of_context"
              ELSE "none",
     flags |-> flags,
     riskScore |-> 30 * f + 15 * c + 10 * e + 20 * o]))))))

\* analyzeForMisinformation(title, content)
analyzeForMisinformation(title, content) ==
  With(title \o <<" ">> \o OrEmpty(content), LAMBDA fullText :
  With(CountTests(MISINFORMATION_PATTERNS.fabricated, fullText), LAMBDA f :
  With(CountTests(MISINFORMATION_PATTERNS.clickbait, fullText), LAMBDA c :
  With(CountTests(MISINFORMATION_PATTERNS.emotional_manipulation, fullText),
       LAMBDA e :
  With(CountTests(MISINFORMATION_PATTERNS.out_of_context, fullText),
       LAMBDA o :
  With(Pushed(f, "fabricated_pattern") \o Pushed(c, "clickbait")
         \o Pushed(e, "emotional_manipulation")
         \o Pushed(o, "possibly_old_content"),
       LAMBDA flags :
    [type |-> IF SeqIncludes(flags, "fabricated_pattern") THEN "fabricated"
              ELSE IF SeqIncludes(flags, "possibly_old_content")
                   THEN "out_of_context"
              ELSE IF SeqIncludes(flags, "clickbait")
                   THEN "misleading_headline"
              ELSE "none",
     flags |-> flags,
     riskScore |-> 30 * f + 15 * c + 10 * e + 20 * o]))))))

----------------------------------------------------------------------------
(* analyzeForMisinformation over titles and contents put together from     *)
(* phrases.                                                                *)

Phrases == <<
    <<"B","R","E","A","K","I","N","G",":"," ","1","2"," ","d","e","a","d">>,
    <<"e","x","p","o","s","e","d"," ","s","e","c","r","e","t">>,
    <<"t","h","e","y"," ","d","o","n","t"," ","w","a","n","t"," ","y","o","u"," ","t","o"," ","k","n","o","w">>,
    <<"Y","o","u"," ","w","o","n","'","t"," ","b","e","l","i","e","v","e">>,
    <<"w","h","a","t"," ","h","a","p","p","e","n","e","d"," ","n","e","x","t">>,
    <<"s","h","o","c","k","i","n","g"," ","t","r","u","t","h">>,
    <<"7"," ","r","e","a","s","o","n","s"," ","w","h","y">>,
    <<"o","u","t","r","a","g","e"," ","o","v","e","r">>,
    <<"s","l","a","m","s">>,
    <<"d","e","s","t","r","o","y","e","d">>,
    <<"e","p","i","c"," ","f","a","i","l">>,
    <<"o","l","d"," ","v","i","d","e","o">>,
    <<"r","e","s","u","r","f","a","c","e","d"," ","c","l","i","p">>,
    <<"c","i","t","y"," ","c","o","u","n","c","i","l"," ","a","p","p","r","o","v","e","s"," ","b","u","d","g","e","t">>,
    <<"b","r","e","a","k","i","n","g"," ","n","e","w","s">>
  >>

MaxPhrases == 2

\* The phrases numbered in chosen, in table order, separated by blanks.
RECURSIVE JoinPhrases(_, _)
JoinPhrases(chosen, n) ==
  IF n > Len(Phrases) THEN <<>>
  ELSE With(JoinPhrases(chosen, n + 1), LAMBDA rest :
         IF n \notin chosen THEN rest
         ELSE IF rest = <<>> THEN Phrases[n]
         ELSE Phrases[n] \o <<" ">> \o rest)

MisinformationInputs ==
  [title : {JoinPhrases(chosen, 1) :
              chosen \in {c \in SUBSET (1..Len(Phrases)) :
                            Cardinality(c) <= MaxPhrases}},
   content : {None, Some(JoinPhrases({12}, 1)), Some(JoinPhrases({9, 10}, 1))}]
  \cup {[title |-> JoinPhrases({14}, 1),
         content |-> Some(JoinPhrases(1..Len(Phrases), 1))]}

InitMisinformation ==
  /\ fnIn \in MisinformationInputs
  /\ fnOut = <<>>
  /\ sources = <<>>
  /\ articles = <<>>
  /\ openai = FALSE
  /\ last = NoCall
  /\ calls = <<>>
  /\ callers = <<>>
  /\ viralNews = <<>>
  /\ cache = {}

AnalyzeForMisinformation ==
  /\ fnOut = <<>>
  /\ fnOut' = <<analyzeForMisinformation(fnIn.title, fnIn.content)>>
  /\ UNCHANGED <<fnIn, calls, callers, storeVars, viralNews, cache>>

NextMisinformation == AnalyzeForMisinformation

SpecMisinformation == InitMisinformation /\ [][NextMisinformation]_vars

\* The number of patterns of a category that the text of fnIn matches.
Matching(category) ==
  CountTests(MISINFORMATION_PATTERNS[category],
             fnIn.title \o <<" ">> \o OrEmpty(fnIn.content))

FlagCount(flags, flag) == Cardinality({n \in 1..Len(flags) : flags[n] = flag})

\* C13: with f, c, e and o the numbers of matching fabricated, clickbait,
\* emotional-manipulation and out-of-context patterns, the result has
\* riskScore 30f + 15c + 10e + 20o, one flag per match, and the type
\* fabricated if f > 0, else out_of_context if o > 0, else
\* misleading_headline if c > 0, else none; a text matching no pattern
\* yields type none, no flags and riskScore 0.
C13_RiskScoreFlagsAndType ==
  fnOut # <<>> =>
    LET f == Matching("fabricated")
        c == Matching("clickbait")
        e == Matching("emotional_manipulation")
        o == Matching("out_of_context")
        result == fnOut[1]
    IN /\ result.riskScore = 30 * f + 15 * c + 10 * e + 20 * o
       /\ Len(result.flags) = f + c + e + o
       /\ FlagCount(result.flags, "fabricated_pattern") = f
       /\ FlagCount(result.flags, "clickbait") = c
       /\ FlagCount(result.flags, "emotional_manipulation") = e
       /\ FlagCount(result.flags, "possibly_old_content") = o
       /\ result.type = IF f > 0 THEN "fabricated"
                        ELSE IF o > 0 THEN "out_of_context"
                        ELSE IF c > 0 THEN "misleading_headline"
                        ELSE "none"
       /\ f + c + e + o = 0 =>
            result = [type |-> "none", flags |-> <<>>, riskScore |-> 0]

\* C13 witness: the title 'shocking truth old video' matches one clickbait
\* and one out-of-context pattern: riskScore 35, type out_of_context.
C13_Witness ==
  /\ fnIn.title = JoinPhrases({6, 12}, 1)
  /\ fnIn.content = None
  /\ fnOut = <<[type |-> "out_of_context",
                flags |-> <<"clickbait", "possibly_old_content">>,
                riskScore |-> 35]>>

----------------------------------------------------------------------------
(* The fact checker: detectViralStories.                                   *)

\* text.split(separator), for a separator of one character.
RECURSIVE Split(_, _)
Split(text, separator) ==
  IF \A n \in 1..Len(text) : text[n] # separator THEN <<text>>
  ELSE With(CHOOSE n \in 1..Len(text) :
              /\ text[n] = separator
              /\ \A m \in 1..(n - 1) : text[m] # separator,
            LAMBDA n : <<SubSeq(text, 1, n - 1)>>
                         \o Split(SubSeq(text, n + 1, Len(text)), separator))

\* The $group key: the title up to its first colon, in lower case.
Signature(title) == toLowerCase(Split(title, ":")[1])

LongWord(w) == Len(w) > 3

\* cluster._id.split(' ').filter(w => w.length > 3)
Keywords(signature) == SelectSeq(Split(signature, " "), LongWord)

RECURSIVE GCD(_, _)
GCD(a, b) == IF b = 0 THEN a ELSE GCD(b, a % b)

\* The number num/den in lowest terms (den > 0).
Rational(num, den) ==
  With(GCD(num, den), LAMBDA g : [num |-> num \div g, den |-> den \div g])

RECURSIVE SumScores(_, _)
SumScores(coll, ids) ==
  IF ids = <<>> THEN 0
  ELSE coll[Head(ids)].overallScore + SumScores(coll, Tail(ids))

WindowHours == 24
MinClusterCount == 3
ClusterLimit == 20

\* The $match stage: published within the last 24 hours and active.
InWindow(article) == article.hoursAgo <= WindowHours /\ article.isActive

\* The $group stage for one key: the members in collection order.
ClusterOf(coll, signature) ==
  With(SelectSeq([n \in 1..Len(coll) |-> n],
                 LAMBDA n : /\ InWindow(coll[n])
                            /\ Signature(coll[n].title) = signature),
       LAMBDA ids :
         [_id |-> signature,
          count |-> Len(ids),
          articles |-> ids,
          sources |-> {coll[ids[n]].sourceName : n \in 1..Len(ids)},
          sumScore |-> SumScores(coll, ids)])

\* The groups that pass the second $match stage.
Clusters(coll) ==
  {cl \in {ClusterOf(coll, signature) :
             signature \in {Signature(coll[n].title) :
                              n \in {m \in 1..Len(coll) : InWindow(coll[m])}}} :
     cl.count >= MinClusterCount}

\* The orders the $sort stage can give: count descending, groups of equal
\* count in any order.
RECURSIVE SortedByCount(_)
SortedByCount(cls) ==
  IF cls = {} THEN {<<>>}
  ELSE UNION {{<<first>> \o rest : rest \in SortedByCount(cls \ {first})} :
                first \in {cl \in cls : \A other \in cls :
                                          other.count <= cl.count}}

\* The results the aggregation can give.
Aggregate(coll) ==
  {SubSeq(order, 1, Min(ClusterLimit, Len(order))) :
     order \in SortedByCount(Clusters(coll))}

\* ViralNews.findOne({keywords: {$in: keywords}}): the first story holding
\* one of the keywords, if any.
findOneByKeywords(coll, keywords) ==
  With({n \in 1..Len(coll) :
          \E k \in 1..Len(keywords) :
            SeqIncludes(coll[n].keywords, keywords[k])},
       LAMBDA found :
         IF found = {} THEN None
         ELSE Some(CHOOSE n \in found : \A m \in found : n <= m))

\* The story whose sourcesCount is the number of member articles.
NewViralNewsCountsArticles(coll, cluster) ==
  [title |-> coll[cluster.articles[1]].title,
   summary |-> None,
   keywords |-> Keywords(cluster._id),
   virality |->
     [score |-> With(Rational(2 * cluster.count * cluster.count * 10
                                + cluster.sumScore, 2 * cluster.count),
                     LAMBDA s : IF s.num >= 100 * s.den THEN Rational(100, 1)
                                ELSE s),
      sourcesCount |-> cluster.count,
      velocity |-> Rational(cluster.count, 24)],
   relatedArticles |->
     [n \in 1..Len(cluster.articles) |->
        [articleId |-> cluster.articles[n],
         title |-> coll[cluster.articles[n]].title,
         source |-> coll[cluster.articles[n]].sourceName,
         credibilityScore |-> coll[cluster.articles[n]].overallScore]],
   claims |-> <<>>,
   factChecks |-> <<>>,
   misinformationAnalysis |-> [type |-> "none"],
   verification |-> [status |-> "unverified", confidenceScore |-> 0,
                     lastChecked |-> None, checkedBy |-> "auto",
                     verifiedAt |-> None]]

\* new ViralNews({...}) for a cluster.  The score
\* min(100, count * 10 + avgScore * 0.5) is kept as an exact fraction:
\* (20 * count^2 + sum of scores) / (2 * count).
NewViralNews(coll, cluster) ==
  [title |-> coll[cluster.articles[1]].title,
   summary |-> None,
   keywords |-> Keywords(cluster._id),
   virality |->
     [score |-> With(Rational(2 * cluster.count * cluster.count * 10
                                + cluster.sumScore, 2 * cluster.count),
                     LAMBDA s : IF s.num >= 100 * s.den THEN Rational(100, 1)
                                ELSE s),
      sourcesCount |-> Cardinality(cluster.sources),
      velocity |-> Rational(cluster.count, 24)],
   relatedArticles |->
     [n \in 1..Len(cluster.articles) |->
        [articleId |-> cluster.articles[n],
         title |-> coll[cluster.articles[n]].title,
         source |-> coll[cluster.articles[n]].sourceName,
         credibilityScore |-> coll[cluster.articles[n]].overallScore]],
   claims |-> <<>>,
   factChecks |-> <<>>,
   misinformationAnalysis |-> [type |-> "none"],
   verification |-> [status |-> "unverified", confidenceScore |-> 0,
                     lastChecked |-> None, checkedBy |-> "auto",
                     verifiedAt |-> None]]

\* The loop of detectViralStories from cluster n on: stories is the
\* collection so far, created the clusters that got a story so far.  A
\* store call that fails at cluster failAt ends the loop (the catch block).
RECURSIVE detectFrom(_, _, _, _, _, _)
detectFrom(coll, clusters, n, failAt, stories, created) ==
  IF n > Len(clusters) \/ n = failAt
  THEN [viralNews |-> stories, created |-> created]
  ELSE IF findOneByKeywords(stories, Keywords(clusters[n]._id)) # None
       THEN detectFrom(coll, clusters, n + 1, failAt, stories, created)
       ELSE detectFrom(coll, clusters, n + 1, failAt,
                       Append(stories, NewViralNews(coll, clusters[n])),
                       Append(created, clusters[n]))

\* detectViralStories(): the collection afterwards, the clusters that got
\* a story, and the stories returned.
detectViralStories(coll, stories, clusters, failAt) ==
  With(detectFrom(coll, clusters, 1, failAt, stories, <<>>), LAMBDA run :
    [viralNews |-> run.viralNews,
     created |-> run.created,
     returned |-> IF failAt \in 1..Len(clusters) THEN 0
                  ELSE Len(run.created)])

----------------------------------------------------------------------------
(* detectViralStories run repeatedly over a collection of recent articles. *)

TitleElection ==
  <<"E","l","e","c","t","i","o","n"," ","R","e","s","u","l","t","s",":"," ","R","e","c","o","u","n","t">>
TitleElectionCaps ==
  <<"E","L","E","C","T","I","O","N"," ","R","E","S","U","L","T","S",":"," ","F","i","n","a","l">>
TitleTheElection ==
  <<"T","h","e"," ","E","l","e","c","t","i","o","n",":"," ","P","o","l","l","s">>
TitleTaxCut ==
  <<"T","a","x"," ","C","u","t",":"," ","V","o","t","e">>
TitleOilGas ==
  <<"O","i","l"," ","G","a","s",":"," ","D","e","a","l">>
TitleStorm ==
  <<"S","t","o","r","m"," ","W","a","r","n","i","n","g",":"," ","C","o","a","s","t">>
TitleElectionDay ==
  <<"E","l","e","c","t","i","o","n"," ","D","a","y">>

ViralSourceNames == <<"Reuters", "BBC News", "Daily Rumor", "The Hindu">>

Batch(title, names, scores, hoursAgo, isActive) ==
  [n \in 1..Len(names) |->
     [title |-> title, sourceName |-> ViralSourceNames[names[n]],
      overallScore |-> scores[n], hoursAgo |-> hoursAgo,
      isActive |-> isActive]]

\* The batches of articles a collection is put together from.
Batches ==
  <<Batch(TitleElection, <<1, 2, 4>>, <<60, 70, 80>>, 2, TRUE)
      \o Batch(TitleElectionCaps, <<3>>, <<70>>, 2, TRUE)
      \o Batch(TitleElection, <<1>>, <<0>>, 30, TRUE)
      \o Batch(TitleElection, <<2>>, <<0>>, 2, FALSE),
    Batch(TitleTheElection, <<1, 2, 3>>, <<50, 50, 51>>, 5, TRUE),
    Batch(TitleTaxCut, <<1, 2, 3, 1, 2>>, <<40, 60, 80, 50, 50>>, 3, TRUE),
    Batch(TitleOilGas, <<2, 3, 4, 2, 3>>, <<55, 65, 75, 60, 60>>, 3, TRUE),
    Batch(TitleStorm, <<1, 1, 1>>, <<100, 100, 100>>, 1, TRUE),
    Batch(TitleStorm, <<2, 2, 3>>, <<100, 100, 100>>, 24, TRUE),
    Batch(TitleElectionDay, <<1, 2, 3>>, <<30, 30, 30>>, 6, TRUE)>>

RECURSIVE JoinBatches(_, _)
JoinBatches(chosen, n) ==
  IF n > Len(Batches) THEN <<>>
  ELSE (IF n \in chosen THEN Batches[n] ELSE <<>>)
         \o JoinBatches(chosen, n + 1)

\* A story tracked from an earlier day.
TrackedElection ==
  [title |-> TitleElectionDay,
   summary |-> None,
   keywords |-> Keywords(Signature(TitleElectionDay)),
   virality |-> [score |-> Rational(45, 1), sourcesCount |-> 3,
                 velocity |-> Rational(3, 24)],
   relatedArticles |-> <<>>,
   claims |-> <<>>,
   factChecks |-> <<>>,
   misinformationAnalysis |-> [type |-> "none"],
   verification |-> [status |-> "unverified", confidenceScore |-> 0,
                     lastChecked |-> None, checkedBy |-> "auto",
                     verifiedAt |-> None]]

MaxRuns == 2

InitViral ==
  /\ fnIn = <<>>
  /\ fnOut = <<>>
  /\ sources = <<>>
  /\ articles \in {JoinBatches(chosen, 1) :
                     chosen \in SUBSET (1..Len(Batches))}
  /\ openai = FALSE
  /\ last = NoCall
  /\ calls = <<>>
  /\ callers = <<>>
  /\ viralNews \in {<<>>, <<TrackedElection>>}
  /\ cache = {}

\* One run of the viral-detection job.
DetectViralStories ==
  /\ Len(calls) < MaxRuns
  /\ \E clusters \in Aggregate(articles) :
       \E failAt \in 0..Len(clusters) :
         \E run \in {detectViralStories(articles, viralNews, clusters,
                                        failAt)} :
           /\ viralNews' = run.viralNews
           /\ last' = [op |-> "detectViralStories", failAt |-> failAt,
                       before |-> Len(viralNews),
                       created |-> run.created,
                       returned |-> run.returned]
           /\ calls' = Append(calls, "detectViralStories")
  /\ UNCHANGED <<fnIn, fnOut, sources, articles, openai, callers, cache>>

NextViral == DetectViralStories

SpecViral == InitViral /\ [][NextViral]_vars

\* The stories the last run of detectViralStories created.
CreatedByLastRun ==
  IF last.op = "detectViralStories"
  THEN SubSeq(viralNews, last.before + 1, Len(viralNews))
  ELSE <<>>

KeywordSet(story) == {story.keywords[n] : n \in 1..Len(story.keywords)}

\* C14: within one run of detectViralStories no two stories are created
\* whose keyword sets are equal, also for groups whose signature has no
\* word longer than 3 characters.
C14_NoTwoStoriesWithEqualKeywords ==
  \A i, j \in 1..Len(CreatedByLastRun) :
    i # j => KeywordSet(CreatedByLastRun[i]) # KeywordSet(CreatedByLastRun[j])

\* The source names of the member articles of a story.
StorySources(story) ==
  {story.relatedArticles[n].source : n \in 1..Len(story.relatedArticles)}

\* C16: a story is created only for a group whose articles come from at
\* least 3 distinct source names.
C16_StoriesHaveThreeSources ==
  \A i \in 1..Len(CreatedByLastRun) :
    Cardinality(StorySources(CreatedByLastRun[i])) >= 3

\* The articles of the collection that the run groups with the story's
\* title.
Members(story) ==
  SelectSeq([n \in 1..Len(articles) |-> n],
            LAMBDA n : /\ articles[n].hoursAgo <= 24
                       /\ articles[n].isActive
                       /\ Signature(articles[n].title)
                            = Signature(story.title))

\* num/den = min(100, count * 10 + (sum / count) * 0.5)
IsViralityScore(score, count, sum) ==
  /\ score.den > 0
  /\ score.num * 2 * count
       = score.den * Min(200 * count, 20 * count * count + sum)

ElectionScenario == JoinBatches({1}, 1)

\* C17: every story created from a group of count articles has
\* virality.score = min(100, count * 10 + avgMemberScore * 0.5),
\* sourcesCount = the number of distinct source names of the group,
\* velocity = count / 24 and one relatedArticles entry per member; the
\* four 'Election Results:' articles of average score 70 create, with no
\* tracked story and no store failure, exactly one story with sourcesCount
\* 4 and virality.score 75.
C17_ViralityOfCreatedStories ==
  /\ \A i \in 1..Len(CreatedByLastRun) :
       LET story == CreatedByLastRun[i]
           members == Members(story)
           count == Len(members)
       IN /\ count >= 3
          /\ IsViralityScore(story.virality.score, count,
                             SumScores(articles, members))
          /\ story.virality.sourcesCount
               = Cardinality({articles[members[n]].sourceName :
                                n \in 1..count})
          /\ story.virality.velocity.num * 24
               = story.virality.velocity.den * count
          /\ Len(story.relatedArticles) = count
          /\ \A n \in 1..count : story.relatedArticles[n].articleId = members[n]
  /\ ( /\ articles = ElectionScenario
       /\ Len(calls) = 1
       /\ last.before = 0
       /\ last.failAt = 0 )
     => /\ Len(viralNews) = 1
        /\ viralNews[1].virality.sourcesCount = 4
        /\ viralNews[1].virality.score = [num |-> 75, den |-> 1]

\* C17 witness: the run over the election scenario has created its one
\* story, of four member articles, four sources and score 75.
C17_Witness ==
  /\ articles = ElectionScenario
  /\ Len(calls) = 1
  /\ last.failAt = 0
  /\ Len(CreatedByLastRun) = 1
  /\ viralNews[1].virality.score = [num |-> 75, den |-> 1]
  /\ viralNews[1].virality.sourcesCount = 4
  /\ Len(viralNews[1].relatedArticles) = 4

----------------------------------------------------------------------------
(* detectViralStories runs in flight at the same time: the scheduled job   *)
(* and POST /api/viral/detect requests.  A run is cut at its awaits: the   *)
(* cache read of the request handler, the aggregation, the findOne and the *)
(* save of each cluster, the cache write of the request handler.  At most  *)
(* one of the runs is the scheduled job.                                   *)

MaxDetectors == 2

CacheKey == "viral:lastDetection"

Detector(kind, pc, clusters, n) ==
  [kind |-> kind, pc |-> pc, clusters |-> clusters, n |-> n]

\* Where a run goes once its loop is over or a store call has failed.
AfterLoop(kind) == IF kind = "manual" THEN "cacheSet" ELSE "done"

\* Where a run goes after cluster n.
AfterCluster(d) ==
  IF d.n < Len(d.clusters) THEN [d EXCEPT !.pc = "findOne", !.n = d.n + 1]
  ELSE [d EXCEPT !.pc = AfterLoop(d.kind)]

InitViralRace ==
  /\ fnIn = <<>>
  /\ fnOut = <<>>
  /\ sources = <<>>
  /\ articles \in {JoinBatches(chosen, 1) : chosen \in SUBSET {1, 2, 5, 7}}
  /\ openai = FALSE
  /\ last = NoCall
  /\ calls = <<>>
  /\ callers \in {ds \in [1..MaxDetectors ->
                             {Detector("cron", "aggregate", <<>>, 0),
                              Detector("manual", "cacheGet", <<>>, 0)}] :
                     \A c \in 2..MaxDetectors : ds[c].kind = "manual"}
  /\ viralNews = <<>>
  /\ cache = {}

\* runViralDetection: the rate limit read.
CacheGet(c) ==
  /\ callers[c].pc = "cacheGet"
  /\ callers' = [callers EXCEPT ![c].pc =
                   IF CacheKey \in cache THEN "done" ELSE "aggregate"]
  /\ UNCHANGED <<fnIn, fnOut, sources, articles, openai, last, calls,
                 viralNews, cache>>

AggregateArticles(c) ==
  /\ callers[c].pc = "aggregate"
  /\ \E clusters \in Aggregate(articles) :
       callers' = [callers EXCEPT ![c] =
                     IF clusters = <<>>
                     THEN Detector(@.kind, AfterLoop(@.kind), clusters, 0)
                     ELSE Detector(@.kind, "findOne", clusters, 1)]
  /\ UNCHANGED <<fnIn, fnOut, sources, articles, openai, last, calls,
                 viralNews, cache>>

FindOneViralNews(c) ==
  /\ callers[c].pc = "findOne"
  /\ callers' = [callers EXCEPT ![c] =
                   IF findOneByKeywords(viralNews,
                                        Keywords(@.clusters[@.n]._id)) = None
                   THEN [@ EXCEPT !.pc = "save"]
                   ELSE AfterCluster(@)]
  /\ UNCHANGED <<fnIn, fnOut, sources, articles, openai, last, calls,
                 viralNews, cache>>

SaveViralNews(c) ==
  /\ callers[c].pc = "save"
  /\ viralNews' = Append(viralNews,
                         NewViralNews(articles,
                                      callers[c].clusters[callers[c].n]))
  /\ callers' = [callers EXCEPT ![c] = AfterCluster(@)]
  /\ UNCHANGED <<fnIn, fnOut, sources, articles, openai, last, calls, cache>>

\* A store call that fails: the catch block ends the run.
StoreFailure(c) ==
  /\ callers[c].pc \in {"aggregate", "findOne", "save"}
  /\ callers' = [callers EXCEPT ![c].pc = AfterLoop(@)]
  /\ UNCHANGED <<fnIn, fnOut, sources, articles, openai, last, calls,
                 viralNews, cache>>

\* runViralDetection: the rate limit written after the run.
CacheSet(c) ==
  /\ callers[c].pc = "cacheSet"
  /\ cache' = cache \cup {CacheKey}
  /\ callers' = [callers EXCEPT ![c].pc = "done"]
  /\ UNCHANGED <<fnIn, fnOut, sources, articles, openai, last, calls,
                 viralNews>>

\* The cache entry expires after 300 seconds.
CacheExpire ==
  /\ CacheKey \in cache
  /\ cache' = cache \ {CacheKey}
  /\ UNCHANGED <<fnIn, fnOut, sources, articles, openai, last, calls,
                 callers, viralNews>>

NextViralRace ==
  \/ \E c \in 1..MaxDetectors : CacheGet(c)
  \/ \E c \in 1..MaxDetectors : AggregateArticles(c)
  \/ \E c \in 1..MaxDetectors : FindOneViralNews(c)
  \/ \E c \in 1..MaxDetectors : SaveViralNews(c)
  \/ \E c \in 1..MaxDetectors : StoreFailure(c)
  \/ \E c \in 1..MaxDetectors : CacheSet(c)
  \/ CacheExpire

SpecViralRace == InitViralRace /\ [][NextViralRace]_vars

AllDetectorsDone == \A c \in 1..MaxDetectors : callers[c].pc = "done"

\* C15: for every interleaving of two concurrent detectViralStories runs
\* over the same recent articles, once both have finished no two stories
\* share a keyword (every keyword is longer than 3 characters).
C15_NoTwoStoriesShareKeyword ==
  AllDetectorsDone =>
    \A i, j \in 1..Len(viralNews) :
      i # j => KeywordSet(viralNews[i]) \cap KeywordSet(viralNews[j]) = {}

----------------------------------------------------------------------------
(* The fact checker: calculateVerificationConfidence.                      *)

\* Math.round(num / den) for num >= 0 and den > 0.
RoundRatio(num, den) == (2 * num + den) \div (2 * den)

Abs(x) == IF x < 0 THEN 0 - x ELSE x

CountIf(seq, Test(_)) == Cardinality({n \in 1..Len(seq) : Test(seq[n])})

\* The combiner with fact-checks counted like one evidence item.
calculateVerificationConfidenceUnweighted(evidence, factChecks) ==
  IF Len(evidence) = 0 /\ Len(factChecks) = 0
  THEN [status |-> "unverified", confidence |-> 0]
  ELSE
    With(CountIf(evidence, LAMBDA e : e.supports)
           + CountIf(factChecks, LAMBDA fc :
                       fc.normalizedRating \in {"true", "mostly_true"}),
         LAMBDA supportingCount :
    With(CountIf(evidence, LAMBDA e : ~e.supports)
           + CountIf(factChecks, LAMBDA fc :
                       fc.normalizedRating
                         \in {"false", "mostly_false", "pants_on_fire"}),
         LAMBDA contradictingCount :
    With(supportingCount + contradictingCount, LAMBDA total :
      IF total = 0 THEN [status |-> "unverified", confidence |-> 0]
      ELSE [status |-> IF 10 * supportingCount >= 8 * total
                       THEN "verified_true"
                       ELSE IF 10 * supportingCount >= 6 * total
                            THEN "partially_true"
                       ELSE IF 10 * supportingCount >= 4 * total
                            THEN "misleading"
                       ELSE "verified_false",
            confidence |->
              RoundRatio(Abs(2 * supportingCount - total) * 100, total)])))

FactCheckWeight == 3

\* calculateVerificationConfidence(evidence, factChecks).  supportRatio is
\* supportingCount / total: its comparisons with 0.8, 0.6 and 0.4 and
\* |supportRatio - 0.5| * 2 * 100 are computed on the two counts.
calculateVerificationConfidence(evidence, factChecks) ==
  IF Len(evidence) = 0 /\ Len(factChecks) = 0
  THEN [status |-> "unverified", confidence |-> 0]
  ELSE
    With(CountIf(evidence, LAMBDA e : e.supports)
           + FactCheckWeight
               * CountIf(factChecks, LAMBDA fc :
                           fc.normalizedRating \in {"true", "mostly_true"}),
         LAMBDA supportingCount :
    With(CountIf(evidence, LAMBDA e : ~e.supports)
           + FactCheckWeight
               * CountIf(factChecks, LAMBDA fc :
                           fc.normalizedRating
                             \in {"false", "mostly_false", "pants_on_fire"}),
         LAMBDA contradictingCount :
    With(supportingCount + contradictingCount, LAMBDA total :
      IF total = 0 THEN [status |-> "unverified", confidence |-> 0]
      ELSE [status |-> IF 10 * supportingCount >= 8 * total
                       THEN "verified_true"
                       ELSE IF 10 * supportingCount >= 6 * total
                            THEN "partially_true"
                       ELSE IF 10 * supportingCount >= 4 * total
                            THEN "misleading"
                       ELSE "verified_false",
            confidence |->
              RoundRatio(Abs(2 * supportingCount - total) * 100, total)])))

----------------------------------------------------------------------------
(* calculateVerificationConfidence over evidence and fact-check lists.     *)

MaxEvidence == 4
MaxFactChecks == 2

NormalizedRatings == {"true", "mostly_true", "half_true", "mostly_false",
                      "false", "pants_on_fire", "unrated"}

SeqsUpTo(n, S) == UNION {[1..len -> S] : len \in 0..n}

InitConfidence ==
  /\ fnIn \in [evidence : SeqsUpTo(MaxEvidence,
                                   [supports : BOOLEAN,
                                    credibilityScore : {50}]),
               factChecks : SeqsUpTo(MaxFactChecks,
                                     [normalizedRating : NormalizedRatings])]
  /\ fnOut = <<>>
  /\ sources = <<>>
  /\ articles = <<>>
  /\ openai = FALSE
  /\ last = NoCall
  /\ calls = <<>>
  /\ callers = <<>>
  /\ viralNews = <<>>
  /\ cache = {}

CalculateVerificationConfidence ==
  /\ fnOut = <<>>
  /\ fnOut' = <<calculateVerificationConfidence(fnIn.evidence,
                                                fnIn.factChecks)>>
  /\ UNCHANGED <<fnIn, calls, callers, storeVars, viralNews, cache>>

NextConfidence == CalculateVerificationConfidence

SpecConfidence == InitConfidence /\ [][NextConfidence]_vars

\* The evidence items with the given supports plus 3 for every fact-check
\* with one of the given ratings.
Weighed(supports, ratings) ==
  Cardinality({n \in 1..Len(fnIn.evidence) :
                 fnIn.evidence[n].supports = supports})
    + 3 * Cardinality({n \in 1..Len(fnIn.factChecks) :
                         fnIn.factChecks[n].normalizedRating \in ratings})

----------------------------------------------------------------------------
(* The fact checker: extractClaims.                                        *)

\* The claim patterns, each a list of token sequences of which the regular
\* expression matches one: the optional speaker of a quote gives two.  With
\* the i flag [A-Z][a-z]+ is two or more letters, and [A-Z][a-zA-Z\s]+ a
\* letter followed by one or more letters or blanks.
CLAIM_PATTERNS ==
  [statistic |-> <<
     <<[kind |-> "rep", class |-> "digit", min |-> 1],
       [kind |-> "alt", options |-> {<<".">>, <<",">>, <<>>}],
       [kind |-> "rep", class |-> "digit", min |-> 0],
       [kind |-> "rep", class |-> "space", min |-> 0],
       [kind |-> "alt", options |-> {<<"p","e","r","c","e","n","t">>, <<"%">>,
           <<"m","i","l","l","i","o","n">>, <<"b","i","l","l","i","o","n">>,
           <<"c","r","o","r","e">>, <<"l","a","k","h">>,
           <<"t","h","o","u","s","a","n","d">>}]>> >>,
   quote |-> <<
     <<[kind |-> "alt", options |-> {<<"\"">>}],
       [kind |-> "rep", class |-> "notQuote", min |-> 1],
       [kind |-> "alt", options |-> {<<"\"">>}],
       [kind |-> "rep", class |-> "space", min |-> 0],
       [kind |-> "alt", options |-> {<<"s","a","i","d">>, <<"s","a","y","s">>,
           <<"s","t","a","t","e","d">>, <<"c","l","a","i","m","e","d">>,
           <<"a","c","c","o","r","d","i","n","g"," ","t","o">>}],
       [kind |-> "rep", class |-> "space", min |-> 0],
       [kind |-> "rep", class |-> "letter", min |-> 2],
       [kind |-> "rep", class |-> "space", min |-> 1],
       [kind |-> "rep", class |-> "letter", min |-> 2]>>,
     <<[kind |-> "alt", options |-> {<<"\"">>}],
       [kind |-> "rep", class |-> "notQuote", min |-> 1],
       [kind |-> "alt", options |-> {<<"\"">>}],
       [kind |-> "rep", class |-> "space", min |-> 0],
       [kind |-> "alt", options |-> {<<"s","a","i","d">>, <<"s","a","y","s">>,
           <<"s","t","a","t","e","d">>, <<"c","l","a","i","m","e","d">>,
           <<"a","c","c","o","r","d","i","n","g"," ","t","o">>}],
       [kind |-> "rep", class |-> "space", min |-> 0]>> >>,
   event |-> <<
     <<[kind |-> "alt", options |-> {<<"h","a","p","p","e","n","e","d">>,
         <<"o","c","c","u","r","r","e","d">>,
         <<"t","o","o","k"," ","p","l","a","c","e">>,
         <<"b","r","o","k","e"," ","o","u","t">>}],
       [kind |-> "rep", class |-> "space", min |-> 1],
       [kind |-> "alt", options |-> {<<"i","n">>, <<"a","t">>, <<"o","n">>}],
       [kind |-> "rep", class |-> "space", min |-> 1],
       [kind |-> "rep", class |-> "letter", min |-> 1],
       [kind |-> "rep", class |-> "letterOrSpace", min |-> 1]>> >>]

\* All matches of the pattern in text from position from on, as matchAll
\* yields them: the leftmost start, the longest match from it (every
\* quantifier of the claim patterns is greedy), then on from its end.
\* lower is the text in lower case (the i flag).
RECURSIVE MatchAllFrom(_, _, _, _)
MatchAllFrom(alternatives, text, lower, from) ==
  With({p \in from..Len(text) :
          \E a \in 1..Len(alternatives) :
            RunPattern(lower, alternatives[a], 1, {p}) # {}},
       LAMBDA starts :
         IF starts = {} THEN <<>>
         ELSE With(CHOOSE p \in starts : \A q \in starts : p <= q,
                   LAMBDA start :
              With(UNION {RunPattern(lower, alternatives[a], 1, {start}) :
                            a \in 1..Len(alternatives)},
                   LAMBDA ends :
              With(CHOOSE e \in ends : \A f \in ends : f <= e,
                   LAMBDA end :
                <<SubSeq(text, start, end - 1)>>
                  \o MatchAllFrom(alternatives, text, lower, end)))))

\* text.matchAll(pattern)
MatchAll(alternatives, text) ==
  With(toLowerCase(text), LAMBDA lower :
    MatchAllFrom(alternatives, text, lower, 1))

NewClaim(text, type) ==
  [text |-> text, type |-> type,
   verification |-> [status |-> "unverified", evidence |-> <<>>,
                     confidenceScore |-> None]]

\* extractClaims(text)
extractClaims(text) ==
  With(MatchAll(CLAIM_PATTERNS.statistic, text), LAMBDA statistics :
  With(MatchAll(CLAIM_PATTERNS.quote, text), LAMBDA quotes :
  With(MatchAll(CLAIM_PATTERNS.event, text), LAMBDA events :
    [n \in 1..Len(statistics) |-> NewClaim(statistics[n], "statistic")]
      \o [n \in 1..Len(quotes) |-> NewClaim(quotes[n], "quote")]
      \o [n \in 1..Len(events) |-> NewClaim(events[n], "event")])))

----------------------------------------------------------------------------
(* The fact checker: crossReferenceWithSources and verifyViralNews.        *)

\* Model.findById(id): the document of the collection with the id, if any.
findById(coll, id) ==
  With({n \in 1..Len(coll) : coll[n]._id = id}, LAMBDA found :
    IF found = {} THEN None ELSE Some(coll[CHOOSE n \in found : TRUE]))

\* texts.join(' ')
RECURSIVE Join(_)
Join(texts) ==
  IF texts = <<>> THEN <<>>
  ELSE IF Len(texts) = 1 THEN texts[1]
  ELSE texts[1] \o <<" ">> \o Join(Tail(texts))

\* The evidence one related article gives for a claim: none when the
\* article is gone, has no more than half of the claim's words, or the
\* claim has no word longer than 3 characters (the ratio is NaN).
EvidenceFrom(claim, related, coll) ==
  With(findById(coll, related.articleId), LAMBDA articleData :
    IF articleData = None THEN <<>>
    ELSE
      With(toLowerCase(The(articleData).title \o <<" ">>
                         \o OrEmpty(The(articleData).description) \o <<" ">>
                         \o OrEmpty(The(articleData).content)),
           LAMBDA articleText :
      With(SelectSeq(Split(toLowerCase(claim.text), " "), LongWord),
           LAMBDA claimWords :
      With(Cardinality({n \in 1..Len(claimWords) :
                          Includes(articleText, claimWords[n])}),
           LAMBDA matchCount :
        IF 2 * matchCount > Len(claimWords)
        THEN <<[source |-> related.source,
                supports |-> 10 * matchCount > 7 * Len(claimWords),
                credibilityScore |-> IF related.credibilityScore = 0 THEN 50
                                     ELSE related.credibilityScore]>>
        ELSE <<>>))))

RECURSIVE crossReferenceFrom(_, _, _, _)
crossReferenceFrom(claim, relatedArticles, n, coll) ==
  IF n > Len(relatedArticles) THEN <<>>
  ELSE EvidenceFrom(claim, relatedArticles[n], coll)
         \o crossReferenceFrom(claim, relatedArticles, n + 1, coll)

\* crossReferenceWithSources(claim, relatedArticles), every lookup answered.
crossReferenceWithSources(claim, relatedArticles, coll) ==
  crossReferenceFrom(claim, relatedArticles, 1, coll)

\* The texts of the first articles of a story that the store still holds.
RECURSIVE ArticleTexts(_, _)
ArticleTexts(relatedArticles, coll) ==
  IF relatedArticles = <<>> THEN <<>>
  ELSE With(findById(coll, Head(relatedArticles).articleId), LAMBDA article :
         (IF article = None THEN <<>>
          ELSE <<The(article).title \o <<" ">>
                   \o OrEmpty(The(article).description)>>)
           \o ArticleTexts(Tail(relatedArticles), coll))

RECURSIVE FlatMapEvidence(_)
FlatMapEvidence(claims) ==
  IF claims = <<>> THEN <<>>
  ELSE Head(claims).verification.evidence \o FlatMapEvidence(Tail(claims))

ExtractionLimit == 5
RiskLimit == 50

\* The statuses the schema accepts for a claim.
ClaimStatuses == {"unverified", "true", "false", "partially_true",
                  "misleading", "unverifiable"}

\* The statuses the schema accepts for a story.
StoryStatuses == {"unverified", "under_review", "verified_true",
                  "verified_false", "partially_true", "misleading",
                  "satire", "opinion"}

\* Document validation on save.
Validates(doc) ==
  /\ doc.verification.status \in StoryStatuses
  /\ doc.verification.confidenceScore \in 0..100
  /\ \A n \in 1..Len(doc.claims) :
       doc.claims[n].verification.status \in ClaimStatuses

NoFetchFault == [kind |-> "none", at |-> 0]

\* The claim with the evidence and the status verifyViralNews gives it.
VerifiedClaim(claim, relatedArticles, coll) ==
  With(crossReferenceWithSources(claim, relatedArticles, coll),
       LAMBDA evidence :
  With(calculateVerificationConfidence(evidence, <<>>), LAMBDA result :
    [claim EXCEPT !.verification =
       [status |-> result.status, evidence |-> evidence,
        confidenceScore |-> Some(result.confidence)]]))

\* The adjustment made from the risk limit on.
FinalStatusAtLimit(status, riskScore) ==
  IF riskScore >= RiskLimit
  THEN IF status = "verified_true" THEN "partially_true"
       ELSE IF status = "partially_true" THEN "misleading"
       ELSE status
  ELSE status

\* The status after the adjustment for the misinformation risk.
FinalStatus(status, riskScore) ==
  IF riskScore > RiskLimit
  THEN IF status = "verified_true" THEN "partially_true"
       ELSE IF status = "partially_true" THEN "misleading"
       ELSE status
  ELSE status

FinalConfidence(confidence, riskScore) ==
  IF riskScore > RiskLimit THEN Max(0, confidence - riskScore)
  ELSE confidence

\* The body of verifyViralNews on the loaded document, marked under
\* review in memory: the document as it is saved, or threw and the cause
\* when a call of the run failed.  The fault names the store call that
\* fails, an article lookup by its number among the lookups of the run.
VerifyLoaded(doc, coll, fault, now) ==
  With(IF Len(doc.claims) = 0
       THEN Min(ExtractionLimit, Len(doc.relatedArticles)) ELSE 0,
       LAMBDA extractionLookups :
    IF fault.kind = "articleFindById" /\ fault.at <= extractionLookups
    THEN [threw |-> TRUE, cause |-> "articleFindById", doc |-> doc]
    ELSE
      With(IF Len(doc.claims) = 0
           THEN extractClaims(Join(ArticleTexts(
                  SubSeq(doc.relatedArticles, 1, extractionLookups), coll)))
           ELSE doc.claims,
           LAMBDA claims :
        IF /\ fault.kind = "articleFindById"
           /\ fault.at <= extractionLookups
                            + Len(claims) * Len(doc.relatedArticles)
        THEN [threw |-> TRUE, cause |-> "articleFindById", doc |-> doc]
        ELSE
          With([n \in 1..Len(claims) |->
                  VerifiedClaim(claims[n], doc.relatedArticles, coll)],
               LAMBDA verified :
          With(analyzeForMisinformation(doc.title, doc.summary),
               LAMBDA misinfoAnalysis :
          With(calculateVerificationConfidence(FlatMapEvidence(verified),
                                               doc.factChecks),
               LAMBDA result :
          With([doc EXCEPT
                  !.claims = verified,
                  !.misinformationAnalysis.type =
                     IF misinfoAnalysis.type # "none"
                     THEN misinfoAnalysis.type ELSE @,
                  !.verification.status =
                     FinalStatus(result.status, misinfoAnalysis.riskScore),
                  !.verification.confidenceScore =
                     FinalConfidence(result.confidence,
                                     misinfoAnalysis.riskScore),
                  !.verification.verifiedAt = Some(now)],
               LAMBDA saved :
            IF ~Validates(saved)
            THEN [threw |-> TRUE, cause |-> "validation", doc |-> doc]
            ELSE IF fault.kind = "save"
                 THEN [threw |-> TRUE, cause |-> "save", doc |-> doc]
            ELSE [threw |-> FALSE, cause |-> "none", doc |-> saved]))))))

\* The document as verifyViralNews marks it before it gathers evidence.
UnderReview(doc, now) ==
  [doc EXCEPT !.verification.status = "under_review",
              !.verification.lastChecked = Some(now),
              !.verification.checkedBy = "auto"]

\* A verifyViralNews that saves the document once it is marked.
verifyViralNewsSavesMark(stories, id, coll, fault, now) ==
  IF fault.kind = "storyFindById" \/ id \notin 1..Len(stories)
  THEN [viralNews |-> stories, threw |-> TRUE, cause |-> "storyFindById"]
  ELSE With(VerifyLoaded(UnderReview(stories[id], now), coll, fault, now),
            LAMBDA run :
         [viralNews |-> [stories EXCEPT ![id] = run.doc],
          threw |-> run.threw, cause |-> run.cause])

\* verifyViralNews(viralNewsId): the collection afterwards and whether the
\* run threw.  The document is written by the one save at the end.
verifyViralNews(stories, id, coll, fault, now) ==
  IF fault.kind = "storyFindById" \/ id \notin 1..Len(stories)
  THEN [viralNews |-> stories, threw |-> TRUE, cause |-> "storyFindById"]
  ELSE With(VerifyLoaded(UnderReview(stories[id], now), coll, fault, now),
            LAMBDA run :
         [viralNews |-> IF run.threw THEN stories
                        ELSE [stories EXCEPT ![id] = run.doc],
          threw |-> run.threw, cause |-> run.cause])

----------------------------------------------------------------------------
(* verifyViralNews run on a story whose related articles are partly gone   *)
(* from the Article collection.                                            *)

TitleTurnout ==
  <<"T","u","r","n","o","u","t"," ","h","i","t","s"," ","4","5"," ","p","e",
    "r","c","e","n","t">>

TitlePoll ==
  <<"P","o","l","l"," ","t","u","r","n","o","u","t"," ","a","t"," ","4","5",
    " ","p","e","r","c","e","n","t">>

TitleBlast ==
  <<"B","l","a","s","t"," ","h","a","p","p","e","n","e","d"," ","i","n"," ",
    "N","e","w"," ","D","e","l","h","i"," ","t","o","d","a","y",".">>

TitlePolice ==
  <<"P","o","l","i","c","e",":"," ","b","l","a","s","t"," ","h","a","p","p",
    "e","n","e","d"," ","n","e","a","r"," ","D","e","l","h","i">>

TitleCouncil ==
  <<"C","i","t","y"," ","c","o","u","n","c","i","l"," ","a","p","p","r","o",
    "v","e","s"," ","b","u","d","g","e","t">>

TitleRisky ==
  <<"B","R","E","A","K","I","N","G",":"," ","1","2"," ","d","e","a","d",",",
    " ","e","x","p","o","s","e","d"," ","s","e","c","r","e","t">>

TitleResurfaced ==
  <<"E","x","p","o","s","e","d",":"," ","s","e","c","r","e","t"," ","o","l",
    "d"," ","v","i","d","e","o">>

TitleVoters ==
  <<"S","h","a","r","e"," ","o","f"," ","v","o","t","e","r","s"," ","i","n",
    " ","p","e","r","c","e","n","t"," ","r","i","s","e","s">>

SummaryCalm ==
  <<"R","e","p","o","r","t","s"," ","f","r","o","m"," ","s","e","v","e","r",
    "a","l"," ","o","u","t","l","e","t","s">>

StoredArticle(id, title, description) ==
  [_id |-> id, title |-> title, description |-> description,
   content |-> None]

\* The articles the stories refer to; 5 was removed by the clean-up job.
VerifyArticles ==
  <<StoredArticle(1, TitleTurnout, None),
    StoredArticle(2, TitlePoll, Some(SummaryCalm)),
    StoredArticle(3, TitleBlast, None),
    StoredArticle(4, TitlePolice, None),
    StoredArticle(6, TitleCouncil, Some(SummaryCalm)),
    StoredArticle(7, TitleVoters, None)>>

Related(id, title, source) ==
  [articleId |-> id, title |-> title, source |-> source,
   credibilityScore |-> 70]

RelatedLists ==
  {<<Related(1, TitleTurnout, "Reuters"), Related(2, TitlePoll, "BBC News")>>,
   <<Related(3, TitleBlast, "Reuters"), Related(4, TitlePolice, "BBC News")>>,
   <<Related(3, TitleBlast, "Reuters"), Related(4, TitlePolice, "BBC News"),
     Related(5, TitleBlast, "The Hindu")>>,
   <<Related(6, TitleCouncil, "Reuters"),
     Related(5, TitleCouncil, "The Hindu")>>,
   <<[Related(1, TitleTurnout, "Reuters") EXCEPT !.credibilityScore = 80],
     [Related(7, TitleVoters, "The Hindu") EXCEPT !.credibilityScore = 80]>>}

FactCheckLists ==
  {<<>>, <<[normalizedRating |-> "true"]>>,
   <<[normalizedRating |-> "false"], [normalizedRating |-> "half_true"]>>,
   <<[normalizedRating |-> "true"], [normalizedRating |-> "mostly_true"],
     [normalizedRating |-> "pants_on_fire"]>>}

\* A story as detectViralStories saves it.
StoryToVerify(title, relatedArticles, factChecks) ==
  [title |-> title,
   summary |-> None,
   keywords |-> Keywords(Signature(title)),
   virality |-> [score |-> Rational(55, 1),
                 sourcesCount |-> Len(relatedArticles),
                 velocity |-> Rational(Len(relatedArticles), 24)],
   relatedArticles |-> relatedArticles,
   claims |-> <<>>,
   factChecks |-> factChecks,
   misinformationAnalysis |-> [type |-> "none"],
   verification |-> [status |-> "unverified", confidenceScore |-> 0,
                     lastChecked |-> None, checkedBy |-> "auto",
                     verifiedAt |-> None]]

MaxVerifications == 2
MaxLookups == 4

VerifyFaults ==
  {NoFetchFault, [kind |-> "storyFindById", at |-> 0],
   [kind |-> "save", at |-> 0]}
    \cup {[kind |-> "articleFindById", at |-> k] : k \in 1..MaxLookups}

InitVerify ==
  /\ fnIn = <<>>
  /\ fnOut = <<>>
  /\ sources = <<>>
  /\ articles \in {SelectSeq(VerifyArticles, LAMBDA a : a._id # gone) :
                     gone \in {0, 2, 4, 7}}
  /\ openai = FALSE
  /\ last = NoCall
  /\ calls = <<>>
  /\ callers = <<>>
  /\ viralNews \in {<<StoryToVerify(title, related, factChecks)>> :
                      title \in {TitleCouncil, TitleRisky, TitleResurfaced},
                      related \in RelatedLists,
                      factChecks \in FactCheckLists}
  /\ cache = {}

\* One call of verifyViralNews on the story.  The fault recorded is the
\* store failure the run met, none when the run made no such call.
VerifyViralNews ==
  /\ Len(calls) < MaxVerifications
  /\ \E id \in 1..Len(viralNews), fault \in VerifyFaults :
       \E run \in {verifyViralNews(viralNews, id, articles, fault,
                                   Len(calls) + 1)} :
         /\ viralNews' = run.viralNews
         /\ last' = [op |-> "verifyViralNews", id |-> id,
                     fault |-> IF run.cause = fault.kind THEN fault.kind
                               ELSE "none",
                     threw |-> run.threw, cause |-> run.cause,
                     before |-> viralNews[id].verification]
  /\ calls' = Append(calls, "verifyViralNews")
  /\ UNCHANGED <<fnIn, fnOut, sources, articles, openai, callers, cache>>

NextVerify == VerifyViralNews

SpecVerify == InitVerify /\ [][NextVerify]_vars

\* C19: every run of verifyViralNews on an existing story, whether it
\* returns or throws, leaves the persisted verification.status different
\* from under_review.
C19_NeverLeftUnderReview ==
  \A n \in 1..Len(viralNews) :
    viralNews[n].verification.status # "under_review"

\* C19 witness: a run has returned and then a run on the same story has
\* thrown while it looked an article up; the story keeps the status the
\* first run saved.
C19_Witness ==
  /\ Len(calls) = 2
  /\ last.op = "verifyViralNews"
  /\ last.fault = "articleFindById"
  /\ last.threw
  /\ viralNews[last.id].verification.verifiedAt = Some(1)
  /\ viralNews[last.id].verification.status = "misleading"

\* The related articles of a story that the Article collection no longer
\* holds.
Missing(story) ==
  {n \in 1..Len(story.relatedArticles) :
     findById(articles, story.relatedArticles[n].articleId) = None}

\* C20: when the fetch of a related article fails during verifyViralNews
\* (the lookup errors or the article no longer exists) the run does not
\* abort: it completes and persists the verification it computed.
\* Stated for runs that meet no other failure.
C20_FetchFailureNeverAborts ==
  ( /\ last.op = "verifyViralNews"
    /\ \/ last.fault = "articleFindById"
       \/ Missing(viralNews[last.id]) # {} /\ last.fault = "none"
    /\ last.cause \notin {"validation", "save", "storyFindById"} )
  => /\ ~last.threw
     /\ viralNews[last.id].verification.verifiedAt = Some(Len(calls))

\* The evidence the claims of a story gather from its related articles:
\* the stored claims, or the ones extracted from the first related
\* articles when the story has none yet.
Gathered(story) ==
  With(IF Len(story.claims) = 0
       THEN extractClaims(Join(ArticleTexts(
              SubSeq(story.relatedArticles, 1,
                     Min(ExtractionLimit, Len(story.relatedArticles))),
              articles)))
       ELSE story.claims,
       LAMBDA claims :
    FlatMapEvidence([n \in 1..Len(claims) |->
      VerifiedClaim(claims[n], story.relatedArticles, articles)]))

\* The story of scenario 4 was verified by the last call, no store call
\* of the run failing: its claims gather 2 supporting evidence items and
\* no contradicting one, it has no fact-check and its title and summary
\* have the misinformation risk score 0.
TwoSupportingVerified ==
  /\ last.op = "verifyViralNews"
  /\ last.cause \notin {"storyFindById", "articleFindById", "save"}
  /\ viralNews[last.id].factChecks = <<>>
  /\ analyzeForMisinformation(viralNews[last.id].title,
                              viralNews[last.id].summary).riskScore = 0
  /\ \E evidence \in {Gathered(viralNews[last.id])} :
       /\ Len(evidence) = 2
       /\ \A n \in 1..2 : evidence[n].supports
                            /\ evidence[n].credibilityScore = 80

\* C21: verifyViralNews on a story whose claims gather 2 supporting
\* evidence items and no contradicting ones, with no fact-checks and a
\* misinformation risk score of 0, completes and persists
\* verification.status verified_true with confidenceScore 100 and
\* verifiedAt set.
C21_TwoSupportingGiveVerifiedTrue ==
  TwoSupportingVerified
  => /\ ~last.threw
     /\ viralNews[last.id].verification.status = "verified_true"
     /\ viralNews[last.id].verification.confidenceScore = 100
     /\ viralNews[last.id].verification.verifiedAt # None

\* The last call of verifyViralNews has saved its result.
VerificationSaved ==
  /\ last.op = "verifyViralNews"
  /\ ~last.threw

\* The rank of a decided status, verified_true highest.
Rank(status) ==
  CASE status = "verified_true" -> 4
    [] status = "partially_true" -> 3
    [] status = "misleading" -> 2
    [] status = "verified_false" -> 1
    [] OTHER -> 0

\* C25: with (s, c) the combiner's status and confidence over all claim
\* evidence and fact-checks and r the misinformation risk score of the
\* title and summary, verifyViralNews persists, for r > 50, partially_true
\* when s is verified_true, misleading when s is partially_true and s
\* otherwise, with confidence max(0, c - r); for r <= 50 it persists
\* (s, c).  The persisted status never ranks above s and the persisted
\* confidence is within 0..100.
C25_RiskAdjustment ==
  VerificationSaved
  => \E story \in {viralNews[last.id]} :
     \E r \in {analyzeForMisinformation(story.title, story.summary).riskScore} :
     \E combined \in {calculateVerificationConfidence(Gathered(story),
                                                      story.factChecks)} :
       /\ story.verification.status =
            IF r > 50 /\ combined.status = "verified_true"
            THEN "partially_true"
            ELSE IF r > 50 /\ combined.status = "partially_true"
            THEN "misleading"
            ELSE combined.status
       /\ story.verification.confidenceScore =
            IF r > 50 THEN Max(0, combined.confidence - r)
            ELSE combined.confidence
       /\ Rank(story.verification.status) <= Rank(combined.status)
       /\ story.verification.confidenceScore \in 0..100

\* C25 witness: a story whose fact-checks combine to partially_true with
\* confidence 33 and whose title has the risk score 60 was saved as
\* misleading with confidence 0.
C25_Witness ==
  /\ VerificationSaved
  /\ analyzeForMisinformation(viralNews[last.id].title,
                              viralNews[last.id].summary).riskScore = 60
  /\ calculateVerificationConfidence(Gathered(viralNews[last.id]),
                                     viralNews[last.id].factChecks)
       = [status |-> "partially_true", confidence |-> 33]
  /\ viralNews[last.id].verification.status = "misleading"
  /\ viralNews[last.id].verification.confidenceScore = 0

\* The related articles of a story whose own text yields the claim: the
\* articles the claim was extracted from.
Origins(story, claim) ==
  {m \in 1..Min(ExtractionLimit, Len(story.relatedArticles)) :
     \E texts \in {ArticleTexts(<<story.relatedArticles[m]>>, articles)} :
       /\ texts # <<>>
       /\ \E found \in {extractClaims(texts[1])} :
            \E j \in 1..Len(found) : found[j].text = claim.text}

\* C26: the evidence verifyViralNews attaches to a claim comes only from
\* related articles other than the article the claim was extracted from.
C26_NoEvidenceFromOrigin ==
  \A n \in 1..Len(viralNews) :
    \A k \in 1..Len(viralNews[n].claims) :
      \A m \in Origins(viralNews[n], viralNews[n].claims[k]) :
        \A e \in 1..Len(viralNews[n].claims[k].verification.evidence) :
          viralNews[n].claims[k].verification.evidence[e].source
            # viralNews[n].relatedArticles[m].source

\* C27: every claim status verifyViralNews assigns is one the schema
\* accepts for a claim, so the save at the end of the verification never
\* fails validation, whatever evidence the claims gathered.
C27_SaveNeverFailsValidation ==
  last.op = "verifyViralNews" => last.cause # "validation"

----------------------------------------------------------------------------
(* POST /api/viral/:id/factcheck: the fact-check is pushed and saved, then *)
(* the story is verified again.                                            *)

\* The sources the schema accepts for a fact-check.
FactCheckSources == {"alt_news", "boom_live", "snopes", "politifact",
                     "factcheck_org", "afp_factcheck", "reuters_factcheck",
                     "other"}

\* The story with the fact-check of the request body pushed.
PushFactCheck(doc, body) ==
  [doc EXCEPT !.factChecks =
     Append(@, [normalizedRating |-> body.normalizedRating])]

\* addFactCheck(req, res): the collection afterwards, the response code
\* and what made the request fail.  The fault names the store call that
\* fails: the handler's findById, the save of the pushed fact-check, or
\* an article lookup of the verification.
addFactCheck(stories, id, body, coll, fault, now) ==
  IF body.source = None \/ body.url = None
  THEN [viralNews |-> stories, code |-> 400, cause |-> "body"]
  ELSE IF fault.kind = "storyFindById"
  THEN [viralNews |-> stories, code |-> 500, cause |-> "storyFindById"]
  ELSE IF id \notin 1..Len(stories)
  THEN [viralNews |-> stories, code |-> 404, cause |-> "notFound"]
  ELSE IF \/ The(body.source) \notin FactCheckSources
          \/ body.normalizedRating \notin NormalizedRatings
  THEN [viralNews |-> stories, code |-> 500, cause |-> "factCheckValidation"]
  ELSE IF fault.kind = "save"
  THEN [viralNews |-> stories, code |-> 500, cause |-> "save"]
  ELSE With(verifyViralNews([stories EXCEPT ![id] = PushFactCheck(@, body)],
                            id, coll,
                            IF fault.kind = "articleFindById" THEN fault
                            ELSE NoFetchFault,
                            now),
            LAMBDA run :
         [viralNews |-> run.viralNews,
          code |-> IF run.threw THEN 500 ELSE 200,
          cause |-> run.cause])

----------------------------------------------------------------------------
(* Fact-check requests and verification runs on one story, one after the   *)
(* other.                                                                  *)

FactCheckBodies ==
  {[source |-> Some("snopes"), url |-> Some("u"), normalizedRating |-> r] :
     r \in {"true", "false", "half_true"}}
    \cup {[source |-> Some("snopes"), url |-> None,
           normalizedRating |-> "true"],
          [source |-> Some("blog"), url |-> Some("u"),
           normalizedRating |-> "true"]}

InitFactCheck ==
  /\ fnIn = <<>>
  /\ fnOut = <<>>
  /\ sources = <<>>
  /\ articles = VerifyArticles
  /\ openai = FALSE
  /\ last = NoCall
  /\ calls = <<>>
  /\ callers = <<>>
  /\ viralNews \in {<<StoryToVerify(title, related, <<>>)>> :
                      title \in {TitleCouncil, TitleRisky},
                      related \in RelatedLists}
  /\ cache = {}

\* One request POST /api/viral/:id/factcheck run to its response.
AddFactCheck ==
  /\ Len(calls) < MaxVerifications
  /\ \E id \in 1..Len(viralNews), body \in FactCheckBodies,
        fault \in VerifyFaults :
       \E run \in {addFactCheck(viralNews, id, body, articles, fault,
                                Len(calls) + 1)} :
         /\ viralNews' = run.viralNews
         /\ last' = [op |-> "addFactCheck", id |-> id,
                     fault |-> IF run.cause = fault.kind THEN fault.kind
                               ELSE "none",
                     threw |-> run.code = 500, cause |-> run.cause,
                     before |-> viralNews[id].verification,
                     factChecks |-> viralNews[id].factChecks,
                     added |-> body.normalizedRating]
  /\ calls' = Append(calls, "addFactCheck")
  /\ UNCHANGED <<fnIn, fnOut, sources, articles, openai, callers, cache>>

NextFactCheck ==
  \/ VerifyViralNews
  \/ AddFactCheck

SpecFactCheck == InitFactCheck /\ [][NextFactCheck]_vars

\* The status and confidence verifyViralNews computes for a story from
\* the evidence of its claims and its stored fact-checks.
Recomputed(story) ==
  With(calculateVerificationConfidence(Gathered(story), story.factChecks),
       LAMBDA result :
  With(analyzeForMisinformation(story.title, story.summary).riskScore,
       LAMBDA riskScore :
    [status |-> FinalStatus(result.status, riskScore),
     confidenceScore |-> FinalConfidence(result.confidence, riskScore)]))

\* A request has pushed its fact-check and met no store failure.
FactCheckAdded ==
  /\ last.op = "addFactCheck"
  /\ last.cause \in {"none", "validation"}

\* C22: when addFactCheck has completed on a story in any verification
\* state, the fact-check is appended to factChecks and the persisted
\* status and confidence are the combiner's result over all claim
\* evidence and all stored fact-checks with the new one, followed by the
\* misinformation downgrade.
C22_FactCheckReverifies ==
  FactCheckAdded
  => /\ viralNews[last.id].factChecks
          = Append(last.factChecks, [normalizedRating |-> last.added])
     /\ \E result \in {Recomputed(viralNews[last.id])} :
          /\ viralNews[last.id].verification.status = result.status
          /\ viralNews[last.id].verification.confidenceScore
               = result.confidenceScore

----------------------------------------------------------------------------
(* processAndStoreArticle calls in flight at once: the hourly fetch jobs   *)
(* hand the same raw articles to it, and each call awaits the duplicate    *)
(* lookup, the pipeline, the save and the statistics update in turn.       *)

MaxIngesters == 3

\* The Article collection without the unique index on url.
NoUniqueUrl(arts, doc) == FALSE

\* The unique index on Article.url: the save of a second article with a
\* url already stored is refused with the duplicate-key error 11000.
DuplicateUrl(arts, doc) == findByUrl(arts, doc.url) # {}

\* A call of processAndStoreArticle at one of its awaits.
Ingester(raw, pc, article, returned, outcome) ==
  [raw |-> raw, pc |-> pc, article |-> article, returned |-> returned,
   outcome |-> outcome]

InitIngestRace ==
  /\ fnIn = <<>>
  /\ fnOut = <<>>
  /\ sources = <<>>
  /\ articles = <<>>
  /\ openai = FALSE
  /\ last = NoCall
  /\ calls = <<>>
  /\ callers \in [1..MaxIngesters ->
                    {Ingester(n, "findOne", None, None, "running") :
                       n \in 1..Len(RawArticles)}]
  /\ viralNews = <<>>
  /\ cache = {}

\* await Article.findOne({ url: rawArticle.url }) and the early return
FindOneArticle(c) ==
  /\ callers[c].pc = "findOne"
  /\ callers' =
       [callers EXCEPT ![c] =
          IF findByUrl(articles, RawArticles[callers[c].raw].url) # {}
          THEN Ingester(@.raw, "done", None, None, "existing")
          ELSE Ingester(@.raw, "processArticle",
                        Some(NewArticle(RawArticles[@.raw])), None,
                        "running")]
  /\ UNCHANGED <<fnIn, fnOut, sources, articles, openai, last, calls,
                 viralNews, cache>>

\* await processArticle(article); an error ends the call with null.
ProcessArticle(c) ==
  /\ callers[c].pc = "processArticle"
  /\ \E fault \in {"none", "sourceFind", "sourceCreate", "categoryFind"} :
       \E run \in {processArticle(The(callers[c].article), sources, openai,
                                  fault, BackendError)} :
         /\ fault # "none" => run.faulted
         /\ sources' = run.sources
         /\ callers' =
              [callers EXCEPT ![c] =
                 IF run.threw
                 THEN Ingester(@.raw, "done", None, None, "failed")
                 ELSE Ingester(@.raw, "save", Some(run.article), None,
                               "running")]
  /\ UNCHANGED <<fnIn, fnOut, articles, openai, last, calls, viralNews,
                 cache>>

\* await article.save(); the duplicate-key error and every other error
\* end the call with null.
SaveArticle(c) ==
  /\ callers[c].pc = "save"
  /\ \E fault \in {"none", "articleSave"} :
       IF fault = "articleSave"
       THEN /\ callers' = [callers EXCEPT ![c] =
                             Ingester(@.raw, "done", None, None, "failed")]
            /\ UNCHANGED articles
       ELSE IF DuplicateUrl(articles, The(callers[c].article))
       THEN /\ callers' = [callers EXCEPT ![c] =
                             Ingester(@.raw, "done", None, None,
                                      "duplicateKey")]
            /\ UNCHANGED articles
       ELSE /\ articles' = Append(articles, The(callers[c].article))
            /\ callers' = [callers EXCEPT ![c].pc = "updateSourceStats"]
  /\ UNCHANGED <<fnIn, fnOut, sources, openai, last, calls, viralNews,
                 cache>>

\* await updateSourceStats(article.source.name) and return article
UpdateStats(c) ==
  /\ callers[c].pc = "updateSourceStats"
  /\ sources' = updateSourceStats(sources,
                                  The(callers[c].article).source.name)
  /\ callers' = [callers EXCEPT ![c] =
                   Ingester(@.raw, "done", @.article, @.article, "stored")]
  /\ UNCHANGED <<fnIn, fnOut, articles, openai, last, calls, viralNews,
                 cache>>

NextIngestRace ==
  \/ \E c \in 1..MaxIngesters : FindOneArticle(c)
  \/ \E c \in 1..MaxIngesters : ProcessArticle(c)
  \/ \E c \in 1..MaxIngesters : SaveArticle(c)
  \/ \E c \in 1..MaxIngesters : UpdateStats(c)

SpecIngestRace == InitIngestRace /\ [][NextIngestRace]_vars

\* The calls that carry the url.
IngestersOf(url) ==
  {c \in 1..Len(callers) : RawArticles[callers[c].raw].url = url}

\* The calls that have saved their article.
Savers(url) ==
  {c \in IngestersOf(url) :
     callers[c].pc = "updateSourceStats" \/ callers[c].outcome = "stored"}

\* C23: for every interleaving of processAndStoreArticle calls carrying
\* the same url (one call after the other included) there is never more
\* than one Article record of the url; once the calls have returned, one
\* record exists when a call met no store failure, it is the article of
\* the one call that saved, unchanged, and every other call has returned
\* null.
C23_OneArticlePerUrl ==
  \A url \in Urls :
    /\ Cardinality(findByUrl(articles, url)) <= 1
    /\ Cardinality(findByUrl(articles, url)) = Cardinality(Savers(url))
    /\ \A c \in Savers(url) :
         articles[CHOOSE n \in findByUrl(articles, url) : TRUE]
           = The(callers[c].article)
    /\ (\A c \in IngestersOf(url) : callers[c].pc = "done")
         => /\ \A c \in IngestersOf(url) \ Savers(url) :
                 callers[c].returned = None
            /\ (\E c \in IngestersOf(url) : callers[c].outcome # "failed")
                 => Cardinality(findByUrl(articles, url)) = 1

\* C23 witness: two calls carrying one url have both passed the duplicate
\* lookup; the first save stored the article, the second was refused by
\* the unique index and the call returned null.
C23_Witness ==
  \E c, d \in 1..Len(callers) :
    /\ c # d
    /\ callers[c].raw = callers[d].raw
    /\ callers[c].outcome = "stored"
    /\ callers[d].outcome = "duplicateKey"
    /\ \A e \in 1..Len(callers) : callers[e].pc = "done"
    /\ Cardinality(findByUrl(articles,
                             RawArticles[callers[c].raw].url)) = 1

----------------------------------------------------------------------------
(* The batch loops.                                                        *)

\* C24: a failure while one item of a batch is processed does not stop
\* the batch: every other item is still processed and only the failing
\* item is left out.  Stated for reprocessAllArticles, the failing item
\* being the article during whose processing a store operation failed.
C24_BatchSurvivesItemFailure ==
  last.op = "reprocessAllArticles"
  => \A n \in 1..Len(articles) :
       articles[n].url # last.url => articles[n].url \in last.processed

----------------------------------------------------------------------------
(* The viral-detection job of the scheduler, run again and again: it       *)
(* detects, then verifies the first unverified stories of high virality.   *)

VerifyLimit == 5
ViralityLimit == 50

\* ViralNews.find({'verification.status': 'unverified',
\* 'virality.score': {$gte: 50}}).limit(5): no sort is given, the stories
\* come in the order of the collection.
findUnverified(stories) ==
  With(SelectSeq([n \in 1..Len(stories) |-> n],
                 LAMBDA n :
                   /\ stories[n].verification.status = "unverified"
                   /\ stories[n].virality.score.num
                        >= ViralityLimit * stories[n].virality.score.den),
       LAMBDA ids : SubSeq(ids, 1, Min(VerifyLimit, Len(ids))))

\* The loop over the stories found: verifyViralNews for each, an error
\* caught and logged per story, which then stays as it was.
RECURSIVE autoVerify(_, _, _, _)
autoVerify(stories, ids, coll, now) ==
  IF ids = <<>> THEN stories
  ELSE With(verifyViralNews(stories, Head(ids), coll, NoFetchFault, now),
            LAMBDA run : autoVerify(run.viralNews, Tail(ids), coll, now))

\* An article with the fields detection and verification read; its id is
\* its place in the collection.
JobArticle(id, title, source, overallScore, hoursAgo) ==
  [_id |-> id, title |-> title, description |-> None, content |-> None,
   sourceName |-> ViralSourceNames[source], overallScore |-> overallScore,
   hoursAgo |-> hoursAgo, isActive |-> TRUE]

\* Two articles of an earlier day and three of today on one subject.
JobArticles ==
  <<JobArticle(1, TitleBlast, 1, 80, 30),
    JobArticle(2, TitlePolice, 2, 80, 30),
    JobArticle(3, TitleCouncil, 1, 60, 2),
    JobArticle(4, TitleCouncil, 2, 70, 2),
    JobArticle(5, TitleCouncil, 4, 80, 2)>>

\* Stories of earlier runs: one whose articles were cleaned up and yield
\* no claim, one whose articles yield a claim with mixed evidence.
QuietStory ==
  StoryToVerify(TitleTaxCut, <<Related(9, TitleTaxCut, "Reuters")>>, <<>>)
MixedStory ==
  StoryToVerify(TitleOilGas,
                <<Related(1, TitleBlast, "Reuters"),
                  Related(2, TitlePolice, "BBC News")>>, <<>>)

EarlierStories == 5

InitJob ==
  /\ fnIn = <<>>
  /\ fnOut = <<>>
  /\ sources = <<>>
  /\ articles = JobArticles
  /\ openai = FALSE
  /\ last = NoCall
  /\ calls = <<>>
  /\ callers = <<[name |-> "viralDetection", pc |-> "idle"]>>
  /\ viralNews \in {earlier \o later :
                      earlier \in [1..EarlierStories ->
                                     {QuietStory, MixedStory}],
                      later \in {<<>>, <<TrackedElection>>, <<QuietStory>>}}
  /\ cache = {}

\* The schedule '15 */2 * * *' fires.
JobFires ==
  /\ callers[1].pc = "idle"
  /\ callers' = [callers EXCEPT ![1].pc = "due"]
  /\ UNCHANGED <<fnIn, fnOut, sources, articles, openai, last, calls,
                 viralNews, cache>>

\* One run of the job.  The dates a run writes are not compared by any
\* run and are all taken as one instant.
ViralDetectionJob ==
  /\ callers[1].pc = "due"
  /\ callers' = [callers EXCEPT ![1].pc = "idle"]
  /\ \E clusters \in Aggregate(articles) :
     \E failAt \in 0..Len(clusters) :
     \E detected \in {detectViralStories(articles, viralNews, clusters,
                                         failAt).viralNews} :
     \E found \in {findUnverified(detected)} :
       /\ viralNews' = autoVerify(detected, found, articles, 1)
       /\ last' = [op |-> "viralDetection",
                   passed |-> {found[n] : n \in 1..Len(found)}]
  /\ UNCHANGED <<fnIn, fnOut, sources, articles, openai, calls, cache>>

NextJob ==
  \/ JobFires
  \/ ViralDetectionJob

SpecJob == InitJob /\ [][NextJob]_vars

\* The schedule keeps firing, and a run that has started comes to its
\* end: it is a finite batch.
SpecJobFair ==
  /\ SpecJob
  /\ WF_vars(JobFires)
  /\ []<>(callers[1].pc = "idle")

\* The n-th story is unverified and of high virality.
Eligible(n) ==
  /\ n \in 1..Len(viralNews)
  /\ viralNews[n].verification.status = "unverified"
  /\ viralNews[n].virality.score.num
       >= ViralityLimit * viralNews[n].virality.score.den

\* The n-th story was passed to verifyViralNews by the last run.
Passed(n) ==
  /\ last.op = "viralDetection"
  /\ n \in last.passed

\* C29: under repeated runs of the job every unverified story of high
\* virality is eventually passed to verifyViralNews, also when more than
\* 5 such stories exist and some of them stay unverified after their
\* verification.
C29_EveryEligibleStoryIsVerified ==
  \A n \in 1..(EarlierStories + 2) : [](Eligible(n) => <>Passed(n))

----------------------------------------------------------------------------
(* A verifyViralNews run of the job and a fact-check request in flight on  *)
(* the same story.  Both work on the document they loaded; a save sends    *)
(* the paths the run changed, and one that replaces the claims array is    *)
(* refused when the stored version is no longer the loaded one.            *)

\* The story with the version key of its document.
Versioned(story, version) ==
  [f \in DOMAIN story \cup {"version"} |->
     IF f = "version" THEN version ELSE story[f]]

\* A caller at one of its awaits, with the document it holds.
Holder(kind, pc, doc, threw) ==
  [kind |-> kind, pc |-> pc, doc |-> doc, threw |-> threw]

\* The rating of the fact-check the request adds.
AddedRating == "true"

InitVerifyRace ==
  /\ fnIn = <<>>
  /\ fnOut = <<>>
  /\ sources = <<>>
  /\ articles = VerifyArticles
  /\ openai = FALSE
  /\ last = NoCall
  /\ calls = <<>>
  /\ callers = <<Holder("verifyViralNews", "findById", None, FALSE),
                 Holder("addFactCheck", "handlerFindById", None, FALSE)>>
  /\ viralNews \in
       {<<Versioned(StoryToVerify(title, related, factChecks), 0)>> :
          title \in {TitleCouncil, TitleRisky, TitleResurfaced},
          related \in {<<Related(6, TitleCouncil, "Reuters"),
                         Related(5, TitleCouncil, "The Hindu")>>,
                       <<Related(3, TitleBlast, "Reuters"),
                         Related(4, TitlePolice, "BBC News")>>},
          factChecks \in FactCheckLists}
  /\ cache = {}

\* await ViralNews.findById(req.params.id) in the handler
HandlerFindById(c) ==
  /\ callers[c].pc = "handlerFindById"
  /\ callers' = [callers EXCEPT ![c].pc = "addFactCheck",
                                ![c].doc = Some(viralNews[1])]
  /\ UNCHANGED <<fnIn, fnOut, sources, articles, openai, last, calls,
                 viralNews, cache>>

\* await viralNews.addFactCheck({...}): the push is sent as such and
\* moves the version on.
SaveFactCheck(c) ==
  /\ callers[c].pc = "addFactCheck"
  /\ viralNews' =
       [viralNews EXCEPT
          ![1].factChecks = Append(@, [normalizedRating |-> AddedRating]),
          ![1].version = @ + 1]
  /\ callers' = [callers EXCEPT ![c].pc = "findById", ![c].doc = None]
  /\ UNCHANGED <<fnIn, fnOut, sources, articles, openai, last, calls,
                 cache>>

\* await ViralNews.findById(viralNewsId) in verifyViralNews
StoryFindById(c) ==
  /\ callers[c].pc = "findById"
  /\ callers' = [callers EXCEPT ![c].pc = "save",
                                ![c].doc = Some(viralNews[1])]
  /\ UNCHANGED <<fnIn, fnOut, sources, articles, openai, last, calls,
                 viralNews, cache>>

\* The rest of verifyViralNews on the loaded document, up to the answer
\* to await viralNews.save().
SaveVerification(c) ==
  /\ callers[c].pc = "save"
  /\ \E run \in {VerifyLoaded(UnderReview(The(callers[c].doc), 1), articles,
                               NoFetchFault, 1)} :
       IF run.threw
       THEN /\ callers' = [callers EXCEPT ![c].pc = "done",
                                          ![c].threw = TRUE]
            /\ UNCHANGED viralNews
       ELSE IF /\ run.doc.claims # The(callers[c].doc).claims
               /\ viralNews[1].version # The(callers[c].doc).version
       THEN /\ callers' = [callers EXCEPT ![c].pc = "done",
                                          ![c].threw = TRUE]
            /\ UNCHANGED viralNews
       ELSE /\ callers' = [callers EXCEPT ![c].pc = "done"]
            /\ viralNews' =
                 [viralNews EXCEPT
                    ![1].claims = run.doc.claims,
                    ![1].misinformationAnalysis =
                       run.doc.misinformationAnalysis,
                    ![1].verification = run.doc.verification,
                    ![1].version =
                       IF run.doc.claims # The(callers[c].doc).claims
                       THEN @ + 1 ELSE @]
  /\ UNCHANGED <<fnIn, fnOut, sources, articles, openai, last, calls,
                 cache>>

NextVerifyRace ==
  \/ \E c \in 1..2 : HandlerFindById(c)
  \/ \E c \in 1..2 : SaveFactCheck(c)
  \/ \E c \in 1..2 : StoryFindById(c)
  \/ \E c \in 1..2 : SaveVerification(c)

SpecVerifyRace == InitVerifyRace /\ [][NextVerifyRace]_vars

\* C30: for every interleaving of a verifyViralNews run and an
\* addFactCheck request on the same story, once both have completed the
\* persisted fact-check list contains the added fact-check and the
\* persisted status and confidence are the ones computed from that full
\* list.
C30_RaceKeepsFactCheckResult ==
  (\A c \in 1..Len(callers) : callers[c].pc = "done")
  => /\ \E n \in 1..Len(viralNews[1].factChecks) :
          viralNews[1].factChecks[n].normalizedRating = AddedRating
     /\ \E result \in {Recomputed(viralNews[1])} :
          /\ viralNews[1].verification.status = result.status
          /\ viralNews[1].verification.confidenceScore
               = result.confidenceScore

----------------------------------------------------------------------------
(* The Source model called in sequence: each call runs to its end before   *)
(* the next one starts.                                                    *)

MaxCalls == 4

\* One entry of the log: the call, the rating passed to it (None when the
\* call takes none), the document it returned (None when it returned none
\* or threw) and the collection it left.
Logged(op, name, rating, returned, coll) ==
  [op |-> op, name |-> name, rating |-> rating, returned |-> returned,
   sources |-> coll]

InitStore ==
  /\ fnIn = <<>>
  /\ fnOut = <<>>
  /\ sources = <<>>
  /\ articles = <<>>
  /\ openai = FALSE
  /\ last = NoCall
  /\ calls = <<>>
  /\ callers = <<>>
  /\ viralNews = <<>>
  /\ cache = {}

GetOrCreateSource ==
  \E name \in SourceNames :
    \E done \in {getOrCreateSource(sources, name, "none")} :
      /\ Len(calls) < MaxCalls
      /\ sources' = done.sources
      /\ calls' = Append(calls, Logged("getOrCreateSource", name, None,
                                       done.source, done.sources))
      /\ UNCHANGED <<fnIn, fnOut, articles, openai, viralNews, cache, last, callers>>

UpdateSourceCredibility ==
  \E name \in SourceNames, rating \in ManualRatings :
    \E coll \in {updateSourceCredibility(sources, name, rating)} :
      /\ Len(calls) < MaxCalls
      /\ sources' = coll
      /\ calls' = Append(calls, Logged("updateSourceCredibility", name,
                                       Some(rating), findOne(coll, name),
                                       coll))
      /\ UNCHANGED <<fnIn, fnOut, articles, openai, viralNews, cache, last, callers>>

InitializeDefaultSources ==
  \E coll \in {initializeDefaultSources(sources)} :
    /\ Len(calls) < MaxCalls
    /\ sources' = coll
    /\ calls' = Append(calls, Logged("initializeDefaultSources", "", None,
                                     None, coll))
    /\ UNCHANGED <<fnIn, fnOut, articles, openai, viralNews, cache, last, callers>>

\* The statistics update that follows the storing of an article of the
\* source.
UpdateSourceStats ==
  \E name \in SourceNames :
    \E coll \in {updateSourceStats(sources, name)} :
      /\ Len(calls) < MaxCalls
      /\ sources' = coll
      /\ calls' = Append(calls, Logged("updateSourceStats", name, None, None,
                                       coll))
      /\ UNCHANGED <<fnIn, fnOut, articles, openai, viralNews, cache, last, callers>>

NextStore ==
  \/ GetOrCreateSource
  \/ UpdateSourceCredibility
  \/ InitializeDefaultSources
  \/ UpdateSourceStats

SpecStore == InitStore /\ [][NextStore]_vars

\* The collection before the n-th call of the log.
Before(n) == IF n = 1 THEN <<>> ELSE calls[n - 1].sources

\* The n-th and the next call are getOrCreateSource for one name, unknown
\* before the first of the two.
FirstSightingTwice(n) ==
  /\ n \in 1..(Len(calls) - 1)
  /\ calls[n].op = "getOrCreateSource"
  /\ calls[n + 1].op = "getOrCreateSource"
  /\ calls[n + 1].name = calls[n].name
  /\ findOne(Before(n), calls[n].name) = None

\* C8: two calls of getOrCreateSource in sequence for a name unknown before
\* the first return the same Source record; afterwards exactly one record
\* has that name, and the second call changed neither its rating nor its
\* rating source.
C8_SecondCallReturnsFirstRecord ==
  \A n \in 1..Len(calls) :
    FirstSightingTwice(n) =>
      LET name == calls[n].name
          after == calls[n + 1].sources
      IN /\ calls[n].returned # None
         /\ calls[n + 1].returned = calls[n].returned
         /\ Cardinality({k \in 1..Len(after) : after[k].name = name}) = 1
         /\ The(findOne(after, name)).credibilityRating
              = The(calls[n].returned).credibilityRating
         /\ after = calls[n].sources

\* C8 witness: Reuters, a name of the curated table, was first seen by a
\* call that followed another call, and was asked for again.
C8_Witness ==
  /\ FirstSightingTwice(2)
  /\ calls[2].name = "Reuters"
  /\ The(calls[3].returned).credibilityRating.source = "curated"

\* The calls before the n-th that updated the rating of name by hand.
UpdatesBefore(n, name) ==
  {k \in 1..(n - 1) : /\ calls[k].op = "updateSourceCredibility"
                      /\ calls[k].name = name}

\* The rating a lookup returns after updateSourceCredibility(name, rating).
Updated(rating) ==
  [overallScore |-> rating.overallScore, biasRating |-> rating.biasRating,
   factualReporting |-> rating.factualReporting,
   source |-> IF rating.source = None THEN "manual" ELSE The(rating.source)]

NeutralRating ==
  [overallScore |-> 50, biasRating |-> "unknown",
   factualReporting |-> "unknown", source |-> "default"]

\* C11: for a name outside the curated table, every getOrCreateSource
\* returns the stored record; its rating is 50 / unknown / unknown with
\* source 'default' from the first sight on, whatever statistics updates and
\* initializeDefaultSources runs come in between, until
\* updateSourceCredibility is called for the name, and from then on the
\* rating last passed, with source 'manual' unless the caller passed one.
C11_DefaultRatingPersistsUntilUpdated ==
  \A n \in 1..Len(calls) :
    (calls[n].op = "getOrCreateSource"
       /\ calls[n].name \notin DOMAIN DEFAULT_RATINGS) =>
      LET name == calls[n].name
          updates == UpdatesBefore(n, name)
          last_update == CHOOSE k \in updates : \A j \in updates : j <= k
      IN /\ calls[n].returned # None
         /\ calls[n].returned = findOne(calls[n].sources, name)
         /\ The(calls[n].returned).credibilityRating =
              IF updates = {} THEN NeutralRating
              ELSE Updated(The(calls[last_update].rating))

\* C11 witness: Daily Rumor was first seen, the curated table was loaded,
\* an administrator rated the source naming the rating's origin, and the
\* next lookup returned that rating.
C11_Witness ==
  /\ Len(calls) = 4
  /\ calls[1].op = "getOrCreateSource"
  /\ calls[1].name = "Daily Rumor"
  /\ The(calls[1].returned).credibilityRating = NeutralRating
  /\ calls[2].op = "initializeDefaultSources"
  /\ calls[3].op = "updateSourceCredibility"
  /\ calls[3].name = "Daily Rumor"
  /\ The(calls[3].rating).source = Some("expert")
  /\ calls[4].op = "getOrCreateSource"
  /\ calls[4].name = "Daily Rumor"
  /\ The(calls[4].returned).credibilityRating.source = "expert"

----------------------------------------------------------------------------
(* getOrCreateSource called concurrently: the lookup and the insert of a   *)
(* call are separate store operations, and other callers run in between.   *)

MaxCallers == 3

InitSource ==
  /\ fnIn = <<>>
  /\ fnOut = <<>>
  /\ sources = <<>>
  /\ articles = <<>>
  /\ openai = FALSE
  /\ last = NoCall
  /\ calls = <<>>
  /\ callers \in [1..MaxCallers ->
                    [name : SourceNames, pc : {"findOne"},
                     returned : {None}, threw : {FALSE}]]
  /\ viralNews = <<>>
  /\ cache = {}

\* await this.findOne({ name: sourceName }) and the test of its result
FindOne(c) ==
  /\ callers[c].pc = "findOne"
  /\ LET source == findOne(sources, callers[c].name)
     IN callers' = [callers EXCEPT
                      ![c].pc = IF source = None THEN "create" ELSE "done",
                      ![c].returned = source]
  /\ UNCHANGED <<fnIn, fnOut, sources, articles, openai, viralNews, cache, last, calls>>

\* await this.create({...}) and the return
Create(c) ==
  /\ callers[c].pc = "create"
  /\ \E made \in {create(sources, NewSource(callers[c].name))} :
       IF made = None
       THEN /\ callers' = [callers EXCEPT ![c].pc = "done", ![c].threw = TRUE]
            /\ UNCHANGED sources
       ELSE /\ callers' = [callers EXCEPT
                             ![c].pc = "done",
                             ![c].returned = Some(NewSource(callers[c].name))]
            /\ sources' = The(made)
  /\ UNCHANGED <<fnIn, fnOut, articles, openai, viralNews, cache, last, calls>>

NextSource ==
  \/ \E c \in 1..MaxCallers : FindOne(c)
  \/ \E c \in 1..MaxCallers : Create(c)

SpecSource == InitSource /\ [][NextSource]_vars

AllFinished == \A c \in 1..Len(callers) : callers[c].pc = "done"

RecordsNamed(name) == {n \in 1..Len(sources) : sources[n].name = name}

\* C9: whatever the interleaving of the concurrent getOrCreateSource calls
\* for names without a record, once all of them have finished there is at
\* most one Source record of each name.
C9_AtMostOneRecordPerName ==
  AllFinished =>
    \A name \in SourceNames : Cardinality(RecordsNamed(name)) <= 1

\* C9 witness: all calls have finished, two of them raced for one name, the
\* insert of one was refused and the name has its one record.
C9_Witness ==
  /\ callers # <<>>
  /\ AllFinished
  /\ \E c, d \in 1..Len(callers) :
       /\ c # d
       /\ callers[c].name = callers[d].name
       /\ callers[c].threw
       /\ callers[d].returned # None
       /\ Cardinality(RecordsNamed(callers[c].name)) = 1

\* What getSourceCredibility(name) returns to a caller whose
\* getOrCreateSource call has finished: the rating of the document it got,
\* or the error default when the call threw.
CredibilityObtained(c) ==
  credibilityOf([source |-> IF callers[c].threw THEN None
                            ELSE callers[c].returned])

\* C28: for every interleaving of concurrent getSourceCredibility calls for
\* a name without a record, every caller obtains the rating held by the
\* single record that ends up stored.
C28_CallersGetTheStoredRating ==
  AllFinished =>
    \A c \in 1..Len(callers) :
      CredibilityObtained(c)
        = credibilityOf([source |-> findOne(sources, callers[c].name)])

====
